---- MODULE Spec2Model ----
(***************************************************************************)
(* Timetable generator: main() drives DataLoader, FeasibilityChecker,      *)
(* ConstraintBuilder and SolverEngine.  The CP-SAT model is represented by *)
(* the set of its 0/1 variables (their dictionary keys) and a solution by  *)
(* the set of keys whose value is 1.  The week is reduced to NumDays days  *)
(* of SlotsPerDay hours; Config tables are reduced to the entries the      *)
(* catalogs below use and keep the values of config.py.                    *)
(***************************************************************************)
EXTENDS Integers, Sequences, FiniteSets, TLC

\* ------------------------------------------------------------------------
\* Bounds
\* ------------------------------------------------------------------------
\* days of the reduced week (Config.DAYS has 6)
NumDays == 2
\* hours per day of the reduced week (START_HOUR..END_HOUR gives 9)
SlotsPerDay == 4
\* weekly cap per teacher, scaled with the week (config.py: 16 of 54 slots)
MAX_HOURS_PER_TEACHER == 2

\* ------------------------------------------------------------------------
\* Helpers
\* ------------------------------------------------------------------------
RECURSIVE SumSeq(_)
SumSeq(s) == IF s = <<>> THEN 0 ELSE Head(s) + SumSeq(Tail(s))

RECURSIVE Flatten(_)
Flatten(ss) == IF ss = <<>> THEN <<>> ELSE Head(ss) \o Flatten(Tail(ss))

Range(s) == {s[i] : i \in DOMAIN s}

Max(a, b) == IF a >= b THEN a ELSE b

\* Python truthiness of an id that is None (0 here) or a string
Truthy(id) == id # 0

\* ------------------------------------------------------------------------
\* Config: time grid
\* ------------------------------------------------------------------------
DAYS == 0 .. (NumDays - 1)

get_slots_list == 0 .. (SlotsPerDay - 1)

\* time slot t is (day t \div SlotsPerDay, hour t % SlotsPerDay)
get_time_slots == 0 .. (NumDays * SlotsPerDay - 1)

DayOf(t) == t \div SlotsPerDay

HourOf(t) == t % SlotsPerDay

LastDay == NumDays - 1

ODD_SEMESTERS == {1, 3, 5, 7}

EVEN_SEMESTERS == {2, 4, 6, 8}

SUBJECT_TYPES == {"DSC", "DSE", "GE", "SEC", "VAC", "AEC"}

FIXED_SLOT_TYPES == <<"GE", "SEC", "VAC", "AEC">>

SUBJECT_REQUIREMENTS ==
  [ty \in SUBJECT_TYPES |->
     IF ty \in {"DSC", "DSE", "GE"}
     THEN [theory_only |-> [Le |-> 3, Tu |-> 1, Pr |-> 0],
           with_lab    |-> [Le |-> 3, Tu |-> 0, Pr |-> 2]]
     ELSE [theory_only |-> [Le |-> 2, Tu |-> 0, Pr |-> 0],
           with_lab    |-> [Le |-> 0, Tu |-> 0, Pr |-> 4]]]

get_subject_requirement(subject_type, has_lab) ==
  IF has_lab THEN SUBJECT_REQUIREMENTS[subject_type].with_lab
  ELSE SUBJECT_REQUIREMENTS[subject_type].theory_only

get_allowed_subject_types_for_semester(semester) ==
  CASE semester \in {1, 2} -> {"DSC", "GE", "SEC", "VAC", "AEC"}
    [] semester \in {3, 4} -> {"DSC", "DSE", "GE", "SEC", "VAC", "AEC"}
    [] semester \in {5, 6} -> {"DSC", "DSE", "GE", "SEC"}
    [] semester \in {7, 8} -> {"DSC", "DSE", "GE"}
    [] OTHER -> {}

get_fixed_slot_types_for_semester(semester) ==
  {ty \in Range(FIXED_SLOT_TYPES) :
     ty \in get_allowed_subject_types_for_semester(semester)}

get_year_from_semester(semester) ==
  CASE semester \in {1, 2} -> 1
    [] semester \in {3, 4} -> 2
    [] semester \in {5, 6} -> 3
    [] semester \in {7, 8} -> 4
    [] OTHER -> 0

\* ------------------------------------------------------------------------
\* Config: reserved windows.  The reduced week keeps the shape of
\* FIXED_SLOTS: GE one hour on every day, AEC the same hour on all days
\* but the last, and the year-1 GE-lab and SEC windows on the last day.
\* Windows of the other years and of VAC are not configured.
\* ------------------------------------------------------------------------
FIXED_SLOTS ==
  [k \in {"GE", "GE_LAB_YEAR1", "SEC_YEAR1", "AEC"} |->
     CASE k = "GE"           -> [slots |-> {2},    days |-> DAYS]
       [] k = "GE_LAB_YEAR1" -> [slots |-> {0, 1}, days |-> {LastDay}]
       [] k = "SEC_YEAR1"    -> [slots |-> {3},    days |-> {LastDay}]
       [] k = "AEC"          -> [slots |-> {2},    days |-> DAYS \ {LastDay}]]

\* indices i of time_slots with day in config["days"] and slot in config["slots"]
SlotsOfKey(k) ==
  IF k \in DOMAIN FIXED_SLOTS
  THEN {t \in get_time_slots :
          DayOf(t) \in FIXED_SLOTS[k].days /\ HourOf(t) \in FIXED_SLOTS[k].slots}
  ELSE {}

YearKey(prefix, year) ==
  CASE prefix = "GE_LAB" ->
         (CASE year = 1 -> "GE_LAB_YEAR1" [] year = 2 -> "GE_LAB_YEAR2"
            [] year = 3 -> "GE_LAB_YEAR3" [] OTHER -> "GE_LAB_YEAR4")
    [] prefix = "SEC" ->
         (CASE year = 1 -> "SEC_YEAR1" [] year = 2 -> "SEC_YEAR2"
            [] OTHER -> "SEC_YEAR3")
    [] prefix = "SEC_SAT" ->
         (CASE year = 1 -> "SEC_YEAR1_SAT" [] OTHER -> "SEC_YEAR2_SAT")
    [] prefix = "VAC" ->
         (CASE year = 1 -> "VAC_YEAR1" [] OTHER -> "VAC_YEAR2")
    [] OTHER ->
         (CASE year = 1 -> "VAC_YEAR1_SAT" [] OTHER -> "VAC_YEAR2_SAT")

\* semester = 0 stands for the default argument None
get_fixed_slot_indices(course_type, semester) ==
  LET year == get_year_from_semester(semester) IN
  CASE course_type = "GE" -> SlotsOfKey("GE")
    [] course_type = "GE_LAB" /\ semester # 0 ->
         SlotsOfKey(YearKey("GE_LAB", year))
    [] course_type = "SEC" /\ semester # 0 ->
         IF year \in {1, 2}
         THEN SlotsOfKey(YearKey("SEC", year)) \cup SlotsOfKey(YearKey("SEC_SAT", year))
         ELSE IF year = 3 THEN SlotsOfKey("SEC_YEAR3") ELSE {}
    [] course_type = "VAC" /\ semester # 0 ->
         IF year \in {1, 2}
         THEN SlotsOfKey(YearKey("VAC", year)) \cup SlotsOfKey(YearKey("VAC_SAT", year))
         ELSE {}
    [] course_type = "AEC" -> SlotsOfKey("AEC") \cup SlotsOfKey("AEC_SAT")
    [] OTHER -> {}

get_all_fixed_slot_indices ==
  get_fixed_slot_indices("GE", 0)
    \cup UNION {get_fixed_slot_indices("GE_LAB", year * 2 - 1) : year \in {1, 2, 3, 4}}
    \cup UNION {get_fixed_slot_indices("SEC", year * 2 - 1) : year \in {1, 2, 3}}
    \cup UNION {get_fixed_slot_indices("VAC", year * 2 - 1) : year \in {1, 2}}
    \cup get_fixed_slot_indices("AEC", 0)

\* ------------------------------------------------------------------------
\* Config: courses, strengths, rooms, penalties (entries of config.py)
\* ------------------------------------------------------------------------
COURSE_SECTIONS ==
  [c \in {"B.Sc. (Hons) Computer Science", "B.A. Program", "B.Sc. (Hons.) Mathematics"} |->
     [s \in 1 .. 8 |-> IF c = "B.Sc. (Hons.) Mathematics" THEN 2 ELSE 1]]

COURSE_SHORT_FORMS ==
  [k \in {"CS(H)", "CA(P)", "Math(H)"} |->
     CASE k = "CS(H)" -> "B.Sc. (Hons) Computer Science"
       [] k = "CA(P)" -> "B.A. Program"
       [] k = "Math(H)" -> "B.Sc. (Hons.) Mathematics"]

get_full_course_name(short_form) ==
  IF short_form \in DOMAIN COURSE_SHORT_FORMS
  THEN COURSE_SHORT_FORMS[short_form] ELSE short_form

\* the table of config.py, whose entries fall by 2 per semester
COURSE_STRENGTHS ==
  [c \in DOMAIN COURSE_SECTIONS |->
     [s \in 1 .. 8 |->
        CASE c = "B.Sc. (Hons) Computer Science" ->
               [x \in {"A"} |-> IF s <= 6 THEN 57 - 2 * s ELSE 30]
          [] c = "B.A. Program" ->
               [x \in {"A"} |-> 52 - 2 * s]
          [] OTHER ->
               [x \in {"A", "B"} |-> IF x = "A" THEN 57 - 2 * s ELSE 55 - 2 * s]]]

GE_SEC_VAC_STRENGTHS ==
  [ty \in {"GE", "SEC", "VAC", "AEC"} |->
     CASE ty = "GE" ->
            [s \in {1} |-> [n \in {"Programming using C++"} |->
                              [x \in {"A", "B"} |-> 30]]]
       [] ty = "SEC" ->
            [s \in {1} |-> [n \in {"IT Skills and Data Analysis 1"} |->
                              [x \in {"A"} |-> 70]]]
       [] ty = "VAC" ->
            [s \in {1} |-> [n \in {"Digital Empowerment"} |->
                              [x \in {"A"} |-> 50]]]
       [] OTHER -> [s \in {} |-> 0]]

get_section_letters(num_sections) ==
  {CASE i = 0 -> "A" [] i = 1 -> "B" [] OTHER -> "C" : i \in 0 .. (num_sections - 1)}

DEPARTMENT_LABS ==
  [d \in {"Computer Science", "Physics", "Chemistry", "Biology", "Electronics"} |->
     CASE d = "Computer Science" -> "CL" [] d = "Physics" -> "PL"
       [] d = "Chemistry" -> "ChemL" [] d = "Biology" -> "BioL"
       [] OTHER -> "EL"]

\* two classrooms of each capacity band, two Computer Science labs and the
\* first lab of each other department
ROOMS ==
  [r \in {"R-1", "R-2", "R-31", "R-32", "R-51", "R-52",
          "CL-1", "CL-2", "PL-1", "ChemL-1", "BioL-1", "EL-1"} |->
     CASE r \in {"R-1", "R-2"} ->
            [type |-> "classroom", capacity_min |-> 60, capacity_max |-> 80,
             department |-> "COMMON"]
       [] r \in {"R-31", "R-32"} ->
            [type |-> "classroom", capacity_min |-> 40, capacity_max |-> 50,
             department |-> "COMMON"]
       [] r \in {"R-51", "R-52"} ->
            [type |-> "classroom", capacity_min |-> 20, capacity_max |-> 30,
             department |-> "COMMON"]
       [] r \in {"CL-1", "CL-2"} ->
            [type |-> "lab", capacity_min |-> 37, capacity_max |-> 43,
             department |-> "Computer Science"]
       [] r = "PL-1" ->
            [type |-> "lab", capacity_min |-> 22, capacity_max |-> 28,
             department |-> "Physics"]
       [] r = "ChemL-1" ->
            [type |-> "lab", capacity_min |-> 22, capacity_max |-> 28,
             department |-> "Chemistry"]
       [] r = "BioL-1" ->
            [type |-> "lab", capacity_min |-> 22, capacity_max |-> 28,
             department |-> "Biology"]
       [] OTHER ->
            [type |-> "lab", capacity_min |-> 22, capacity_max |-> 28,
             department |-> "Electronics"]]

PENALTY_WEIGHTS ==
  [oversized_room |-> 10, undersized_room |-> 100, isolated_practical |-> 50,
   ge_lecture_slot_usage |-> 30, theory_in_lab |-> 100]

get_student_strength(course, semester, section) ==
  IF course = "COMMON" THEN 30
  ELSE IF /\ course \in DOMAIN COURSE_STRENGTHS
          /\ semester \in DOMAIN COURSE_STRENGTHS[course]
          /\ section \in DOMAIN COURSE_STRENGTHS[course][semester]
       THEN COURSE_STRENGTHS[course][semester][section]
       ELSE 30

get_ge_sec_vac_strength(subject_type, semester, subject_name, section) ==
  IF /\ subject_type \in DOMAIN GE_SEC_VAC_STRENGTHS
     /\ semester \in DOMAIN GE_SEC_VAC_STRENGTHS[subject_type]
     /\ subject_name \in DOMAIN GE_SEC_VAC_STRENGTHS[subject_type][semester]
     /\ section \in DOMAIN GE_SEC_VAC_STRENGTHS[subject_type][semester][subject_name]
  THEN GE_SEC_VAC_STRENGTHS[subject_type][semester][subject_name][section]
  ELSE 50

get_rooms_by_type(room_type) == {r \in DOMAIN ROOMS : ROOMS[r].type = room_type}

get_labs_by_department(department) ==
  {r \in DOMAIN ROOMS : ROOMS[r].type = "lab" /\ ROOMS[r].department = department}

\* [name for name, info in Config.ROOMS.items() if info["type"] == "lab"]
AllLabs == get_rooms_by_type("lab")

\* ------------------------------------------------------------------------
\* Input: the Teachers sheet and the Subjects sheet (one record per row).
\* Course is the list of "+"-separated parts of the cell (<<>> = empty),
\* Teacher the list of names with the separator Sep that joins them, Hours
\* the list of "|"-separated (Le, Tu, Pr) triples.
\* ------------------------------------------------------------------------
teacher_initials ==
  [n \in {"Anand", "Bose", "Chopra", "Das"} |->
     CASE n = "Anand" -> "AN" [] n = "Bose" -> "BO"
       [] n = "Chopra" -> "CH" [] OTHER -> "DA"]

Row(course, semester, subject, section, teacher, sep, hours, department, ty, lab) ==
  [Course |-> course, Semester |-> semester, Subject |-> subject,
   Section |-> section, Teacher |-> teacher, Sep |-> sep, Hours |-> hours,
   Department |-> department, Subject_type |-> ty, Has_Lab |-> lab]

\* one cohort without section letter, a theory subject and a lab subject
CatalogS1 ==
  << Row(<<"CS(H)">>, 1, "Algebra", "", <<"Anand">>, ",", <<<<1, 0, 0>>>>,
         "Mathematics", "DSC", "no"),
     Row(<<"CS(H)">>, 1, "Programming", "", <<"Bose">>, ",", <<<<0, 0, 2>>>>,
         "Computer Science", "DSC", "yes") >>

\* the same cohort with its section letter
CatalogSection ==
  << Row(<<"CS(H)">>, 1, "Algebra", "A", <<"Anand">>, ",", <<<<1, 0, 0>>>>,
         "Mathematics", "DSC", "no"),
     Row(<<"CS(H)">>, 1, "Programming", "A", <<"Bose">>, ",", <<<<0, 0, 2>>>>,
         "Computer Science", "DSC", "yes") >>

\* split teaching: one row, two teachers with their own hours
CatalogSplit ==
  << Row(<<"CS(H)">>, 1, "Algebra", "", <<"Anand", "Bose">>, "|",
         <<<<1, 0, 0>>, <<0, 1, 0>>>>, "Mathematics", "DSC", "no") >>

\* a merge group of two courses with one teacher
CatalogMerge ==
  << Row(<<"CS(H)", "CA(P)">>, 1, "Programming", "", <<"Anand">>, ",",
         <<<<1, 0, 1>>>>, "Computer Science", "DSC", "yes") >>

\* a merged row that is also split among three teachers
CatalogMergeSplit ==
  << Row(<<"CS(H)", "CA(P)">>, 1, "Programming", "", <<"Anand", "Bose", "Chopra">>, "|",
         <<<<0, 0, 0>>, <<0, 0, 1>>, <<0, 0, 1>>>>, "Computer Science", "DSC", "yes") >>

\* a merged and split row, and a row that lists Bose as co-teacher
CatalogCoTeacher ==
  << Row(<<"CS(H)", "CA(P)">>, 1, "Programming", "", <<"Anand", "Bose">>, "|",
         <<<<0, 0, 0>>, <<0, 0, 1>>>>, "Physics", "DSC", "yes"),
     Row(<<"CS(H)">>, 1, "Algebra", "", <<"Chopra", "Bose">>, ",", <<<<1, 0, 0>>>>,
         "Mathematics", "DSC", "no") >>

\* a GE subject with a lab component
CatalogGE ==
  << Row(<<>>, 1, "Programming using C++", "", <<"Das">>, ",", <<<<1, 0, 1>>>>,
         "Computer Science", "GE", "yes") >>

\* a tutorial with no lecture anywhere
CatalogTutorial ==
  << Row(<<"CS(H)">>, 1, "Algebra", "", <<"Anand">>, ",", <<<<0, 1, 0>>>>,
         "Mathematics", "DSC", "no") >>

\* lecture hours above the requirement of a theory DSC
CatalogBadHours ==
  << Row(<<"CS(H)">>, 1, "Algebra", "", <<"Anand">>, ",", <<<<4, 0, 0>>>>,
         "Mathematics", "DSC", "no") >>

\* one section letter where COURSE_SECTIONS has two
CatalogOneOfTwoSections ==
  << Row(<<"Math(H)">>, 1, "Algebra", "A", <<"Anand">>, ",", <<<<1, 0, 0>>>>,
         "Mathematics", "DSC", "no") >>

\* one teacher with twice the full load of a theory DSC
CatalogOverload ==
  << Row(<<"CS(H)">>, 1, "Algebra", "", <<"Anand">>, ",", <<<<3, 1, 0>>>>,
         "Mathematics", "DSC", "no"),
     Row(<<"CS(H)">>, 1, "Calculus", "", <<"Anand">>, ",", <<<<3, 1, 0>>>>,
         "Mathematics", "DSC", "no") >>

\* a lab subject of a department that has no lab among ROOMS
CatalogNoLab ==
  << Row(<<"CS(H)">>, 1, "Algebra", "", <<"Anand">>, ",", <<<<1, 0, 1>>>>,
         "Mathematics", "DSC", "yes") >>

\* a GE lab subject with a co-teacher, and a third teacher of the department
CatalogLabCoTeacher ==
  << Row(<<>>, 1, "Programming using C++", "", <<"Das", "Bose">>, ",",
         <<<<0, 0, 1>>>>, "Computer Science", "GE", "yes"),
     Row(<<"CS(H)">>, 1, "Algebra", "", <<"Chopra">>, ",", <<<<1, 0, 0>>>>,
         "Computer Science", "DSC", "no") >>

\* a GE lab subject and two equally loaded teachers of its department
CatalogTwoCandidates ==
  << Row(<<>>, 1, "Programming using C++", "", <<"Das">>, ",",
         <<<<0, 0, 1>>>>, "Computer Science", "GE", "yes"),
     Row(<<"CS(H)">>, 1, "Algebra", "", <<"Chopra">>, ",", <<<<1, 0, 0>>>>,
         "Computer Science", "DSC", "no"),
     Row(<<"CS(H)">>, 1, "Calculus", "", <<"Bose">>, ",", <<<<1, 0, 0>>>>,
         "Computer Science", "DSC", "no") >>

\* two rows with lecture hours above the requirement
CatalogTwoBadRows ==
  << Row(<<"CS(H)">>, 1, "Algebra", "", <<"Anand">>, ",", <<<<4, 0, 0>>>>,
         "Mathematics", "DSC", "no"),
     Row(<<"CS(H)">>, 1, "Calculus", "", <<"Bose">>, ",", <<<<5, 0, 0>>>>,
         "Mathematics", "DSC", "no") >>

\* one section letter where COURSE_SECTIONS has two, in two semesters
CatalogTwoMismatches ==
  << Row(<<"Math(H)">>, 1, "Algebra", "A", <<"Anand">>, ",", <<<<1, 0, 0>>>>,
         "Mathematics", "DSC", "no"),
     Row(<<"Math(H)">>, 3, "Calculus", "A", <<"Bose">>, ",", <<<<1, 0, 0>>>>,
         "Mathematics", "DSC", "no") >>

\* scenario S1 with a department that has one lab
CatalogS1OneLab ==
  << Row(<<"CS(H)">>, 1, "Algebra", "", <<"Anand">>, ",", <<<<1, 0, 0>>>>,
         "Mathematics", "DSC", "no"),
     Row(<<"CS(H)">>, 1, "Programming", "", <<"Bose">>, ",", <<<<0, 0, 2>>>>,
         "Physics", "DSC", "yes") >>

\* two teachers separated by "|" and one (Le, Tu, Pr) triple without "|"
CatalogPipedTeachersOneTriple ==
  << Row(<<"CS(H)">>, 1, "Algebra", "", <<"Anand", "Bose">>, "|",
         <<<<1, 0, 0>>>>, "Mathematics", "DSC", "no") >>

Catalogs ==
  {CatalogS1, CatalogSection, CatalogSplit, CatalogMerge, CatalogMergeSplit,
   CatalogCoTeacher, CatalogGE, CatalogTutorial, CatalogBadHours,
   CatalogOneOfTwoSections, CatalogOverload, CatalogNoLab, CatalogLabCoTeacher,
   CatalogTwoCandidates, CatalogTwoBadRows, CatalogTwoMismatches,
   CatalogS1OneLab, CatalogPipedTeachersOneTriple}

\* user configuration read through ConfigAdapter (main.py); the limits keep
\* their defaults, and one configuration lowers max_consecutive_hours to 1
Configs ==
  {[semester_type |-> ty, practical_consecutive |-> pc2,
    max_consecutive_classes |-> TRUE, max_daily_hours |-> TRUE,
    max_daily_teacher_hours |-> TRUE, early_completion |-> TRUE,
    max_consecutive_hours |-> 3, max_daily_hours_students |-> 6,
    max_daily_hours_teachers |-> 6] : ty \in {"odd", "even"}, pc2 \in BOOLEAN}
  \cup
  {[semester_type |-> "odd", practical_consecutive |-> TRUE,
    max_consecutive_classes |-> TRUE, max_daily_hours |-> TRUE,
    max_daily_teacher_hours |-> TRUE, early_completion |-> TRUE,
    max_consecutive_hours |-> 1, max_daily_hours_students |-> 6,
    max_daily_hours_teachers |-> 6]}

\* ------------------------------------------------------------------------
\* DataLoader: validation of the sheet
\* ------------------------------------------------------------------------
\* "|" in teacher_str
TeacherPiped(row) == row.Sep = "|" /\ Len(row.Teacher) >= 2

\* "|" in hours_str
HoursPiped(row) == Len(row.Hours) >= 2

HasLabOf(row) == row.Has_Lab = "yes"

_validate_semester_type(df, semester_type) ==
  LET valid_semesters == IF semester_type = "odd" THEN ODD_SEMESTERS
                         ELSE EVEN_SEMESTERS
  IN /\ semester_type \in {"odd", "even"}
     /\ \A i \in DOMAIN df : df[i].Semester \in valid_semesters

_validate_hours_taught(row) ==
  LET has_lab == HasLabOf(row)
      known == row.Subject_type \in DOMAIN SUBJECT_REQUIREMENTS
      requirement == get_subject_requirement(row.Subject_type, has_lab)
      total_le == SumSeq([i \in DOMAIN row.Hours |-> row.Hours[i][1]])
      total_tu == SumSeq([i \in DOMAIN row.Hours |-> row.Hours[i][2]])
      total_pr == SumSeq([i \in DOMAIN row.Hours |-> row.Hours[i][3]])
  IN IF TeacherPiped(row) /\ HoursPiped(row)
     THEN /\ Len(row.Teacher) = Len(row.Hours)
          /\ \A i \in DOMAIN row.Hours : \A j \in 1 .. 3 : row.Hours[i][j] >= 0
          /\ known
          /\ total_le <= requirement.Le
          /\ total_tu <= requirement.Tu
          /\ total_pr <= requirement.Pr
          /\ ~(has_lab /\ requirement.Pr = 0)
          /\ ~(~has_lab /\ total_pr > 0)
     ELSE \* a cell with pipes splits on "," into more than three parts
          /\ Len(row.Hours) = 1
          /\ \A j \in 1 .. 3 : row.Hours[1][j] >= 0
          /\ known
          /\ row.Hours[1][1] <= requirement.Le
          /\ row.Hours[1][2] <= requirement.Tu
          /\ row.Hours[1][3] <= requirement.Pr
          /\ ~(has_lab /\ requirement.Pr = 0)
          /\ ~(~has_lab /\ row.Hours[1][3] > 0)

_validate_row(row) ==
  /\ row.Subject_type # ""
  /\ row.Subject # "" /\ row.Teacher # <<>> /\ row.Hours # <<>> /\ row.Department # ""
  /\ (row.Course = <<>> => row.Subject_type \in {"GE", "SEC", "VAC", "AEC"})
  /\ row.Has_Lab \in {"yes", "no"}
  /\ \A i \in DOMAIN row.Teacher : row.Teacher[i] \in DOMAIN teacher_initials
  /\ _validate_hours_taught(row)
  /\ row.Subject_type \in SUBJECT_TYPES
  /\ row.Subject_type \in get_allowed_subject_types_for_semester(row.Semester)
  /\ \A i \in DOMAIN row.Course :
       get_full_course_name(row.Course[i]) \in DOMAIN COURSE_SECTIONS

\* the errors validate_data prints before it returns False: the semester
\* check, then the loop over the rows, which returns at the first row that
\* _validate_row rejects.  An error is <<phase, name, number, kind>>
validate_data_reports(df, semester_type) ==
  LET invalid == {i \in DOMAIN df : ~_validate_row(df[i])}
  IN IF ~_validate_semester_type(df, semester_type)
     THEN {<<"data", "", 0, "semester">>}
     ELSE IF invalid = {} THEN {}
     ELSE {<<"data", "", CHOOSE i \in invalid : \A j \in invalid : i <= j, "row">>}

\* ------------------------------------------------------------------------
\* DataLoader._parse_and_expand_subjects.  Cells of the sheet are held
\* stripped and single-spaced.  A merge_group_id / split_group_id string
\* ends with the row index, so the index stands for it and 0 for None; a
\* Lab_type of None is "".
\* ------------------------------------------------------------------------
Min(a, b) == IF a <= b THEN a ELSE b

IsFixedType(subject_type) == subject_type \in {"GE", "SEC", "VAC", "AEC"}

\* subject_name.replace(" ", "")[:limit]
Compact(name, limit) ==
  CASE name = "Programming using C++" ->
         (IF limit >= 19 THEN "ProgrammingusingC++" ELSE "Programmingusin")
    [] name = "IT Skills and Data Analysis 1" ->
         (IF limit >= 20 THEN "ITSkillsandDataAnaly" ELSE "ITSkillsandData")
    [] name = "Digital Empowerment" -> 
         (IF limit >= 18 THEN "DigitalEmpowerment" ELSE "DigitalEmpowerm")
    [] OTHER -> name

\* the teacher cell taken as one name (no "," to split on)
CellName(teachers) ==
  IF Len(teachers) = 1 THEN teachers[1]
  ELSE IF teachers = <<"Anand", "Bose">> THEN "Anand|Bose" ELSE "piped names"

row_data(row, idx, teacher, co, hours, split) ==
  [idx |-> idx, semester |-> row.Semester, subject_name |-> row.Subject,
   section |-> row.Section, main_teacher |-> teacher, co_teachers |-> co,
   is_split_teaching |-> split, department |-> row.Department,
   subject_type |-> row.Subject_type, has_lab |-> HasLabOf(row),
   split_group_id |-> IF split THEN idx ELSE 0,
   taught_lecture_hours |-> hours[1], taught_tutorial_hours |-> hours[2],
   taught_practical_hours |-> hours[3],
   total_taught_hours |-> hours[1] + hours[2] + hours[3],
   lab_type |-> IF HasLabOf(row)
                THEN (IF row.Department \in DOMAIN DEPARTMENT_LABS
                      THEN DEPARTMENT_LABS[row.Department] ELSE "Lab-General")
                ELSE "",
   course |-> "COMMON", is_merged |-> FALSE, merge_group_id |-> 0]

\* the row_data records of one row, one per teacher when the row is split
TeacherRowData(row, idx) ==
  IF TeacherPiped(row) /\ HoursPiped(row)
  THEN [k \in 1 .. Min(Len(row.Teacher), Len(row.Hours)) |->
          row_data(row, idx, row.Teacher[k], <<>>, row.Hours[k], TRUE)]
  ELSE << row_data(row, idx,
                   IF row.Sep = "," THEN row.Teacher[1] ELSE CellName(row.Teacher),
                   IF row.Sep = "," THEN Tail(row.Teacher) ELSE <<>>,
                   row.Hours[1], FALSE) >>

ge_sec_vac_aec_rows(df) ==
  Flatten([i \in DOMAIN df |->
             IF IsFixedType(df[i].Subject_type) THEN TeacherRowData(df[i], i)
             ELSE <<>>])

regular_subjects(df) ==
  Flatten([i \in DOMAIN df |->
     IF IsFixedType(df[i].Subject_type) THEN <<>>
     ELSE LET trd == TeacherRowData(df[i], i)
              is_merged == Len(df[i].Course) > 1
          IN Flatten([k \in DOMAIN trd |->
                [c \in DOMAIN df[i].Course |->
                   [trd[k] EXCEPT !.course = get_full_course_name(df[i].Course[c]),
                                  !.is_merged = is_merged,
                                  !.merge_group_id = IF is_merged THEN i ELSE 0]]])])

NonEmptySeq(q) == q # <<>>

\* the groups of a dict of lists filled in the order of seq
GroupInOrder(seq, Key(_)) ==
  LET first(i) == \A j \in 1 .. (i - 1) : Key(seq[j]) # Key(seq[i])
      grp(i) == LET Same(x) == Key(x) = Key(seq[i]) IN SelectSeq(seq, Same)
  IN SelectSeq([i \in DOMAIN seq |-> IF first(i) THEN grp(i) ELSE <<>>], NonEmptySeq)

GEKey(d) == <<d.semester, d.subject_name, d.subject_type>>

RegularKey(d) == <<d.course, d.semester, d.section>>

\* ValueError("Missing sections for repeated GE/SEC/VAC/AEC subject")
GEGroupError(teachers_data) ==
  LET NoSplit(d) == d.split_group_id = 0
      non_split_teachers == SelectSeq(teachers_data, NoSplit)
  IN /\ Len(teachers_data) > 1
     /\ Len(non_split_teachers) > 1
     /\ \E k \in DOMAIN non_split_teachers : non_split_teachers[k].section = ""

AssignSections(teachers_data) ==
  IF Len(teachers_data) = 1
  THEN [k \in DOMAIN teachers_data |->
          IF teachers_data[k].section = ""
          THEN [teachers_data[k] EXCEPT !.section = "A"] ELSE teachers_data[k]]
  ELSE [k \in DOMAIN teachers_data |->
          IF /\ teachers_data[k].split_group_id # 0
             /\ \E m \in DOMAIN teachers_data :
                  /\ teachers_data[m].split_group_id = teachers_data[k].split_group_id
                  /\ teachers_data[m].section = ""
          THEN [teachers_data[k] EXCEPT !.section = "A"] ELSE teachers_data[k]]

\* order of section strings under Python's comparison
SectionRank(section) ==
  CASE section = "" -> 1 [] section = "A" -> 2 [] section = "B" -> 3
    [] section = "C" -> 4 [] OTHER -> 5

\* teachers_data.sort(key=lambda x: x["section"]) (stable)
SortBySection(teachers_data) ==
  Flatten([r \in 1 .. 5 |->
             LET HasRank(d) == SectionRank(d.section) = r
             IN SelectSeq(teachers_data, HasRank)])

\* the dict appended to self.subjects; cs is the Course_Semester id, held as
\* the record of the parts its string is formatted from
SubjectEntry(d, requirement, cs, section, students, is_ge_lab) ==
  [Course |-> d.course, Semester |-> d.semester, Subject |-> d.subject_name,
   Teacher |-> d.main_teacher, Is_Merged |-> d.is_merged,
   Merge_Group_ID |-> d.merge_group_id, split_group_id |-> d.split_group_id,
   Co_Teachers |-> d.co_teachers, Is_Split_Teaching |-> d.is_split_teaching,
   Department |-> d.department, Subject_type |-> d.subject_type,
   Has_Lab |-> d.has_lab,
   Taught_Lecture_hours |-> d.taught_lecture_hours,
   Taught_Tutorial_hours |-> d.taught_tutorial_hours,
   Taught_Practical_hours |-> d.taught_practical_hours,
   Lecture_hours |-> requirement.Le, Tutorial_hours |-> requirement.Tu,
   Practical_hours |-> requirement.Pr,
   Total_hours |-> requirement.Le + requirement.Tu + requirement.Pr,
   Total_taught_hours |-> d.total_taught_hours,
   Lab_type |-> IF d.taught_practical_hours > 0 THEN d.lab_type ELSE "",
   Course_Semester |-> cs, Section |-> section, Students_count |-> students,
   Is_GE_Lab |-> is_ge_lab]

\* f"COMMON-{subject_type}-Sem{semester}-{subject_short}-Sec{section_letter}";
\* is_ge_lab reads has_lab, which still holds the value of the last row of
\* the first pass
CommonEntries(df) ==
  LET groups == GroupInOrder(ge_sec_vac_aec_rows(df), GEKey)
      has_lab == HasLabOf(df[Len(df)])
  IN Flatten([g \in DOMAIN groups |->
       LET teachers_data == SortBySection(AssignSections(groups[g]))
       IN [k \in DOMAIN teachers_data |->
             LET d == teachers_data[k] IN
             SubjectEntry(d, get_subject_requirement(d.subject_type, d.has_lab),
                          [course |-> "COMMON", st |-> d.subject_type,
                           sem |-> d.semester,
                           tag |-> Compact(d.subject_name, 15), sec |-> d.section],
                          d.section,
                          get_ge_sec_vac_strength(d.subject_type, d.semester,
                                                  d.subject_name, d.section),
                          d.subject_type = "GE" /\ has_lab)]])

\* f"{course}-Sem{semester}-{section}" or f"{course}-Sem{semester}-{subject_short}"
RegularEntries(df) ==
  LET groups == GroupInOrder(regular_subjects(df), RegularKey)
  IN Flatten([g \in DOMAIN groups |->
       [k \in DOMAIN groups[g] |->
          LET d == groups[g][k] IN
          SubjectEntry(d, get_subject_requirement(d.subject_type, d.has_lab),
                       [course |-> d.course, st |-> "", sem |-> d.semester,
                        tag |-> IF d.section # "" THEN d.section
                                ELSE Compact(d.subject_name, 20),
                        sec |-> ""],
                       d.section,
                       get_student_strength(d.course, d.semester, d.section),
                       FALSE)]])

\* key of subject_repetition_check for a row; an empty Course cell reads "nan"
RepetitionKey(row) ==
  << IF row.Course = <<>> THEN "nan" ELSE get_full_course_name(row.Course[1]),
     row.Semester, row.Subject, row.Subject_type >>

\* ValueError("Missing sections for repeated subject")
RepetitionError(df) ==
  \E i, j \in DOMAIN df :
     /\ i # j
     /\ RepetitionKey(df[i]) = RepetitionKey(df[j])
     /\ df[i].Section = ""

\* _parse_and_expand_subjects raises
ExpandRaises(df) ==
  \/ LET groups == GroupInOrder(ge_sec_vac_aec_rows(df), GEKey)
     IN \E g \in DOMAIN groups : GEGroupError(groups[g])
  \/ RepetitionError(df)

_parse_and_expand_subjects(df) == CommonEntries(df) \o RegularEntries(df)

\* ------------------------------------------------------------------------
\* DataLoader.validate_config_match and the getters main() calls
\* ------------------------------------------------------------------------
\* (course, semester, section) of every course part of every row
CourseParts(df) ==
  UNION {{<<get_full_course_name(df[i].Course[c]), df[i].Semester, df[i].Section>> :
            c \in DOMAIN df[i].Course} : i \in DOMAIN df}

\* TRUE iff the list of errors is empty
validate_config_match(df) ==
  /\ \A p \in CourseParts(df) :
       /\ p[1] \in DOMAIN COURSE_SECTIONS
       /\ p[2] \in DOMAIN COURSE_SECTIONS[p[1]]
       /\ p[1] \in DOMAIN COURSE_STRENGTHS
       /\ p[2] \in DOMAIN COURSE_STRENGTHS[p[1]]
  /\ \A p \in CourseParts(df) :
       LET sections_found == {q[3] : q \in {r \in CourseParts(df) :
                                 r[1] = p[1] /\ r[2] = p[2] /\ r[3] # ""}}
       IN (/\ p[1] \in DOMAIN COURSE_SECTIONS
           /\ p[2] \in DOMAIN COURSE_SECTIONS[p[1]]
           /\ sections_found # {})
          => Cardinality(sections_found) = COURSE_SECTIONS[p[1]][p[2]]
  /\ \A i \in DOMAIN df :
       IsFixedType(df[i].Subject_type) =>
         /\ df[i].Subject_type \in DOMAIN GE_SEC_VAC_STRENGTHS
         /\ df[i].Semester \in DOMAIN GE_SEC_VAC_STRENGTHS[df[i].Subject_type]
         /\ df[i].Subject \in
              DOMAIN GE_SEC_VAC_STRENGTHS[df[i].Subject_type][df[i].Semester]

\* the list errors of validate_config_match, printed together at its end
config_errors(df) ==
  LET parts == {<<p[1], p[2]>> : p \in CourseParts(df)}
      PartError(p) ==
        IF p[1] \notin DOMAIN COURSE_SECTIONS
        THEN {<<"config", p[1], 0, "not_in_sections">>}
        ELSE IF p[2] \notin DOMAIN COURSE_SECTIONS[p[1]]
        THEN {<<"config", p[1], p[2], "no_semester">>}
        ELSE IF p[1] \notin DOMAIN COURSE_STRENGTHS
        THEN {<<"config", p[1], 0, "no_strengths">>}
        ELSE IF p[2] \notin DOMAIN COURSE_STRENGTHS[p[1]]
        THEN {<<"config", p[1], p[2], "no_sem_strengths">>}
        ELSE {}
      sections_found(p) ==
        {q[3] : q \in {r \in CourseParts(df) :
                         r[1] = p[1] /\ r[2] = p[2] /\ r[3] # ""}}
      SectionError(p) ==
        IF /\ p[1] \in DOMAIN COURSE_SECTIONS
           /\ p[2] \in DOMAIN COURSE_SECTIONS[p[1]]
           /\ sections_found(p) # {}
           /\ Cardinality(sections_found(p)) # COURSE_SECTIONS[p[1]][p[2]]
        THEN {<<"config", p[1], p[2], "section_mismatch">>}
        ELSE {}
      FixedError(i) ==
        IF ~IsFixedType(df[i].Subject_type) THEN {}
        ELSE IF df[i].Subject_type \notin DOMAIN GE_SEC_VAC_STRENGTHS
        THEN {<<"config", df[i].Subject_type, 0, "not_configured">>}
        ELSE IF \/ df[i].Semester \notin
                     DOMAIN GE_SEC_VAC_STRENGTHS[df[i].Subject_type]
                \/ df[i].Subject \notin
                     DOMAIN GE_SEC_VAC_STRENGTHS[df[i].Subject_type][df[i].Semester]
        THEN {<<"config", df[i].Subject_type, df[i].Semester, df[i].Subject>>}
        ELSE {}
  IN UNION ({PartError(p) : p \in parts} \cup {SectionError(p) : p \in parts}
            \cup {FixedError(i) : i \in DOMAIN df})

get_teachers(S) == {S[i].Teacher : i \in DOMAIN S}

get_course_semesters(S) == {S[i].Course_Semester : i \in DOMAIN S}

\* room_capacities["Classroom"]["count"]
ClassroomCount == Cardinality(get_rooms_by_type("classroom"))

\* ------------------------------------------------------------------------
\* FeasibilityChecker
\* ------------------------------------------------------------------------
\* the entry is not skipped as a later member of a processed merge group
CountedOnce(S, i) ==
  ~(/\ S[i].Is_Merged
    /\ \E j \in 1 .. (i - 1) :
         S[j].Is_Merged /\ Truthy(S[j].Merge_Group_ID)
           /\ S[j].Merge_Group_ID = S[i].Merge_Group_ID)

\* teacher_loads[teacher]["total"] (0 when the teacher has no entry)
teacher_loads(S, teacher) ==
  SumSeq([i \in DOMAIN S |->
     IF ~CountedOnce(S, i) THEN 0
     ELSE LET taught == S[i].Taught_Lecture_hours + S[i].Taught_Tutorial_hours
                          + S[i].Taught_Practical_hours
              main_hours == IF taught = 0 THEN S[i].Total_taught_hours ELSE taught
          IN (IF S[i].Teacher = teacher THEN main_hours ELSE 0)
             + (IF S[i].Is_Split_Teaching THEN 0
                ELSE SumSeq([k \in DOMAIN S[i].Co_Teachers |->
                               IF S[i].Co_Teachers[k] = teacher THEN main_hours ELSE 0]))])

FeasTeachers(S) ==
  get_teachers(S) \cup UNION {Range(S[i].Co_Teachers) : i \in DOMAIN S}

_check_teacher_workload(S) ==
  IF \E teacher \in FeasTeachers(S) : teacher_loads(S, teacher) > MAX_HOURS_PER_TEACHER
  THEN {"TEACHER OVERLOAD"} ELSE {}

\* the teachers that get a warning: in teacher_loads with a total below
\* MAX_HOURS_PER_TEACHER * 0.8 (and so below the 0.9 of the branch before)
underutilized(S) ==
  {teacher \in FeasTeachers(S) :
     /\ \E i \in DOMAIN S :
          /\ CountedOnce(S, i)
          /\ \/ S[i].Teacher = teacher
             \/ ~S[i].Is_Split_Teaching /\ teacher \in Range(S[i].Co_Teachers)
     /\ teacher_loads(S, teacher) <= MAX_HOURS_PER_TEACHER
     /\ 10 * teacher_loads(S, teacher) < 8 * MAX_HOURS_PER_TEACHER}

_check_fixed_slot_capacity(S) ==
  UNION {LET of_type == {i \in DOMAIN S : S[i].Subject_type = slot_type}
             total_needed ==
               SumSeq([i \in DOMAIN S |->
                  IF i \in of_type /\ CountedOnce(S, i)
                  THEN S[i].Lecture_hours + S[i].Tutorial_hours
                         + (S[i].Practical_hours \div 2)
                  ELSE 0])
             slot_indices ==
               IF slot_type \in {"SEC", "VAC"}
               THEN UNION {get_fixed_slot_indices(slot_type, S[i].Semester) : i \in of_type}
               ELSE get_fixed_slot_indices(slot_type, 0)
             total_capacity == Cardinality(slot_indices) * ClassroomCount
         IN IF of_type = {} THEN {}
            ELSE IF total_capacity > 0
                 THEN (IF total_needed > total_capacity
                       THEN {"FIXED SLOT OVERFLOW"} ELSE {})
                 ELSE {"NO FIXED SLOTS"}
         : slot_type \in {"GE", "SEC", "VAC", "AEC"}}

\* sum(1 for room_info in Config.ROOMS.values() if room_info["type"] == "lab")
lab_count == Cardinality(AllLabs)

_check_room_capacity(S) ==
  LET Dsc(i) == S[i].Subject_type \in {"DSC", "DSE", ""}
      theory_needed ==
        SumSeq([i \in DOMAIN S |->
                  IF Dsc(i) THEN S[i].Lecture_hours + S[i].Tutorial_hours ELSE 0])
      practical_needed ==
        SumSeq([i \in DOMAIN S |-> IF Dsc(i) THEN S[i].Practical_hours \div 2 ELSE 0])
      available_slots ==
        Cardinality(get_time_slots) - Cardinality(get_all_fixed_slot_indices)
      classroom_capacity == available_slots * ClassroomCount
      lab_capacity == IF lab_count > 0 THEN available_slots * lab_count ELSE 0
  IN (IF classroom_capacity > 0 /\ theory_needed > classroom_capacity
      THEN {"CLASSROOM SHORTAGE"} ELSE {})
     \cup
     (IF lab_capacity > 0
      THEN (IF practical_needed > lab_capacity THEN {"LAB SHORTAGE"} ELSE {})
      ELSE (IF practical_needed > 0 THEN {"NO LABS CONFIGURED"} ELSE {}))

\* consecutive same-day pairs with both hours outside every reserved window
available_pairs ==
  Cardinality({t1 \in get_time_slots :
                 /\ HourOf(t1) < SlotsPerDay - 1
                 /\ t1 \notin get_all_fixed_slot_indices
                 /\ (t1 + 1) \notin get_all_fixed_slot_indices})

_check_practical_slots(S) ==
  LET total_practical_sessions ==
        SumSeq([i \in DOMAIN S |->
                  IF S[i].Practical_hours > 0 THEN S[i].Practical_hours \div 2 ELSE 0])
      total_pair_capacity == IF lab_count > 0 THEN available_pairs * lab_count ELSE 0
  IN IF total_pair_capacity > 0
     THEN (IF total_practical_sessions > total_pair_capacity
           THEN {"PRACTICAL SLOT SHORTAGE"} ELSE {})
     ELSE (IF total_practical_sessions > 0
           THEN (IF lab_count = 0 THEN {"NO LABS"} ELSE {"NO CONSECUTIVE SLOTS"})
           ELSE {})

\* self.issues after the four checks; is_feasible iff it is empty
check_feasibility(S) ==
  _check_teacher_workload(S) \cup _check_fixed_slot_capacity(S)
    \cup _check_room_capacity(S) \cup _check_practical_slots(S)

\* ------------------------------------------------------------------------
\* ConstraintBuilder: identifiers, allowed slots, decision variables.
\* A dictionary of 0/1 variables is the set of its keys; a key is a tuple
\* as in the code.
\* ------------------------------------------------------------------------
\* f"{Course_Semester}_{Subject}_{initials}" or f"{Course_Semester}_{Subject}"
_build_subject_id(subj) ==
  [cs |-> subj.Course_Semester, subj |-> subj.Subject,
   ini |-> IF subj.Is_Split_Teaching
           THEN (IF subj.Teacher \in DOMAIN teacher_initials
                 THEN teacher_initials[subj.Teacher] ELSE "UNK")
           ELSE ""]

_get_allowed_slots_for_subject(subj) ==
  LET subject_type == subj.Subject_type
      semester == subj.Semester
      blocked_slots ==
        UNION {get_fixed_slot_indices(fixed_type, semester) :
                 fixed_type \in get_fixed_slot_types_for_semester(semester)}
          \cup UNION {get_fixed_slot_indices("GE_LAB", year * 2 - 1) :
                        year \in {1, 2, 3, 4}}
  IN CASE subject_type = "GE" -> get_fixed_slot_indices("GE", 0)
       [] subject_type \in {"SEC", "VAC"} -> get_fixed_slot_indices(subject_type, semester)
       [] subject_type = "AEC" ->
            get_fixed_slot_indices("AEC", 0)
              \cup (IF "AEC_SAT" \in DOMAIN FIXED_SLOTS
                    THEN get_fixed_slot_indices("AEC_SAT", 0) ELSE {})
       [] OTHER -> get_time_slots \ blocked_slots

_get_allowed_slots_for_ge_practical(semester) ==
  get_fixed_slot_indices("GE", 0) \cup get_fixed_slot_indices("GE_LAB", semester)

lecture_tutorial_slots(subj) == _get_allowed_slots_for_subject(subj)

practical_slots(subj) ==
  IF subj.Is_GE_Lab THEN _get_allowed_slots_for_ge_practical(subj.Semester)
  ELSE _get_allowed_slots_for_subject(subj)

\* labs offered to theory hours: the Department is looked up among the lab
\* codes that are the values of DEPARTMENT_LABS
dept_labs(subj) ==
  IF subj.Department \in Range(DEPARTMENT_LABS)
  THEN get_labs_by_department(subj.Department) ELSE {}

\* the tutorial branch reads dept_labs, a local the lecture branch of this or
\* of an earlier subject assigns: NameError when none has done so
CreateVariablesRaises(S) ==
  \E i \in DOMAIN S :
     /\ S[i].Taught_Tutorial_hours > 0
     /\ \A j \in 1 .. i : ~(S[j].Taught_Lecture_hours > 0)

\* the labs the tutorial branch of S[i] sees
TutorialLabs(S, i) ==
  LET last == CHOOSE j \in 1 .. i :
                /\ S[j].Taught_Lecture_hours > 0
                /\ \A k \in (j + 1) .. i : ~(S[k].Taught_Lecture_hours > 0)
  IN dept_labs(S[last])

_create_variables(S) ==
  [lecture |->
     UNION {{<<_build_subject_id(S[i]), t>> : t \in lecture_tutorial_slots(S[i])} :
              i \in {j \in DOMAIN S : S[j].Taught_Lecture_hours > 0}},
   tutorial |->
     UNION {{<<_build_subject_id(S[i]), t>> : t \in lecture_tutorial_slots(S[i])} :
              i \in {j \in DOMAIN S : S[j].Taught_Tutorial_hours > 0}},
   practical |->
     UNION {{<<_build_subject_id(S[i]), t>> : t \in practical_slots(S[i])} :
              i \in {j \in DOMAIN S : S[j].Taught_Practical_hours > 0}},
   room_assignment |->
     UNION {{<<_build_subject_id(S[i]), t, room, "lecture">> :
               t \in lecture_tutorial_slots(S[i]),
               room \in get_rooms_by_type("classroom") \cup dept_labs(S[i])} :
              i \in {j \in DOMAIN S : S[j].Taught_Lecture_hours > 0}}
     \cup
     UNION {{<<_build_subject_id(S[i]), t, room, "tutorial">> :
               t \in lecture_tutorial_slots(S[i]),
               room \in get_rooms_by_type("classroom") \cup TutorialLabs(S, i)} :
              i \in {j \in DOMAIN S : S[j].Taught_Tutorial_hours > 0}}
     \cup
     UNION {{<<_build_subject_id(S[i]), t, lab, "practical">> :
               t \in practical_slots(S[i]),
               lab \in get_labs_by_department(S[i].Department)} :
              i \in {j \in DOMAIN S : S[j].Taught_Practical_hours > 0}},
   room_penalty |->
     UNION {{<<_build_subject_id(S[i]), t, k>> :
               t \in lecture_tutorial_slots(S[i]), k \in {"oversized", "undersized"}} :
              i \in {j \in DOMAIN S : S[j].Lecture_hours > 0 \/ S[j].Tutorial_hours > 0}}
     \cup
     UNION {{<<_build_subject_id(S[i]), t, k>> :
               t \in practical_slots(S[i]), k \in {"oversized_lab", "undersized_lab"}} :
              i \in {j \in DOMAIN S : S[j].Practical_hours > 0}}]

\* the variables dictionary before _create_variables has run
NoVariables ==
  [lecture |-> {}, tutorial |-> {}, practical |-> {}, room_assignment |-> {},
   room_penalty |-> {}]

\* ------------------------------------------------------------------------
\* ConstraintBuilder: the constraints.  An assignment a gives the keys whose
\* variable is 1: a.lecture, a.tutorial, a.practical, a.room_assignment.
\* Each _add_* operator is TRUE iff a satisfies what the method adds.
\* ------------------------------------------------------------------------
Val(set, key) == IF key \in set THEN 1 ELSE 0

\* the class variables that are 1, as <<subject_id, t, kind>>
Ones(a) ==
  {<<k[1], k[2], "lecture">> : k \in a.lecture}
    \cup {<<k[1], k[2], "tutorial">> : k \in a.tutorial}
    \cup {<<k[1], k[2], "practical">> : k \in a.practical}

\* sum of the lecture, tutorial and practical variables that the listings L
\* contribute over the slots ts; a listing is a tuple whose first component
\* is the index of a subject, and a subject listed n times counts n times
ClassSum(S, a, L, ts) ==
  Cardinality({p \in L \X Ones(a) :
                 _build_subject_id(S[p[1][1]]) = p[2][1] /\ p[2][2] \in ts})

\* one listing for each subject that satisfies Sel
Listed(S, Sel(_)) == {<<i>> : i \in {j \in DOMAIN S : Sel(S[j])}}

Taught(subj, kind) ==
  CASE kind = "lecture" -> subj.Taught_Lecture_hours
    [] kind = "tutorial" -> subj.Taught_Tutorial_hours
    [] OTHER -> subj.Taught_Practical_hours

Required(subj, kind) ==
  CASE kind = "lecture" -> subj.Lecture_hours
    [] kind = "tutorial" -> subj.Tutorial_hours
    [] OTHER -> subj.Practical_hours

KINDS == {"lecture", "tutorial", "practical"}

_add_hour_requirements(S, V, a) ==
  \A i \in DOMAIN S : \A kind \in KINDS :
     LET sid == _build_subject_id(S[i])
         vars == {t \in get_time_slots : <<sid, t>> \in V[kind]}
     IN (Required(S[i], kind) > 0 /\ vars # {}) =>
          Cardinality({t \in vars : <<sid, t>> \in a[kind]}) = Taught(S[i], kind)

\* rooms whose assignment variables the constraint of this kind sums
RoomsSummed(subj, kind) ==
  IF kind = "practical" THEN get_labs_by_department(subj.Department)
  ELSE get_rooms_by_type("classroom") \cup AllLabs

\* sum(room_assignments) == 1 if the class is scheduled at t, == 0 if not
ExactlyOneRoom(S, V, a) ==
  \A i \in DOMAIN S : \A kind \in KINDS :
     LET sid == _build_subject_id(S[i]) IN
     Required(S[i], kind) > 0 =>
       \A t \in get_time_slots :
          LET room_assignments ==
                {r \in RoomsSummed(S[i], kind) : <<sid, t, r, kind>> \in V.room_assignment}
          IN (<<sid, t>> \in V[kind] /\ room_assignments # {}) =>
               Cardinality({r \in room_assignments :
                              <<sid, t, r, kind>> \in a.room_assignment})
                 = Val(a[kind], <<sid, t>>)

\* student_count of _add_room_fit_penalties: the combined count of the merge
\* group of the first subject that has this subject_id, else the caller's
TheoryStudentCount(S, i) ==
  LET sid == _build_subject_id(S[i])
      first == CHOOSE j \in DOMAIN S :
                 /\ _build_subject_id(S[j]) = sid
                 /\ \A k \in 1 .. (j - 1) : _build_subject_id(S[k]) # sid
  IN IF Truthy(S[first].Merge_Group_ID)
     THEN SumSeq([k \in DOMAIN S |->
                    IF S[k].Merge_Group_ID = S[first].Merge_Group_ID
                    THEN S[k].Students_count ELSE 0])
     ELSE S[i].Students_count

\* <<penalty key, lower bound>> imposed on a room_penalty variable because
\* the room is assigned (lo, hi is the range that needs no penalty)
FitBound(sid, t, student_count, lo, hi, over, under) ==
  IF student_count < lo
  THEN {<<<<sid, t, over>>, (lo - student_count) * PENALTY_WEIGHTS.oversized_room>>}
  ELSE IF student_count > hi
       THEN {<<<<sid, t, under>>, (student_count - hi) * PENALTY_WEIGHTS.undersized_room>>}
       ELSE {}

_add_room_fit_penalties(S, V, a) ==
  UNION {UNION {FitBound(_build_subject_id(S[i]), k[2], TheoryStudentCount(S, i),
                         ROOMS[k[3]].capacity_min, ROOMS[k[3]].capacity_max,
                         "oversized", "undersized") :
                  k \in {x \in a.room_assignment :
                           /\ x[1] = _build_subject_id(S[i])
                           /\ x[4] \in {"lecture", "tutorial"}
                           /\ Required(S[i], x[4]) > 0
                           /\ <<x[1], x[2]>> \in V[x[4]]
                           /\ x[3] \in get_rooms_by_type("classroom")}} :
           i \in DOMAIN S}

\* labs have a tolerance of 3 around capacity_max
_add_lab_fit_penalties(S, V, a) ==
  UNION {UNION {FitBound(_build_subject_id(S[i]), k[2], S[i].Students_count,
                         ROOMS[k[3]].capacity_max - 3, ROOMS[k[3]].capacity_max + 3,
                         "oversized_lab", "undersized_lab") :
                  k \in {x \in a.room_assignment :
                           /\ x[1] = _build_subject_id(S[i])
                           /\ x[4] = "practical"
                           /\ Required(S[i], "practical") > 0
                           /\ <<x[1], x[2]>> \in V.practical
                           /\ x[3] \in get_labs_by_department(S[i].Department)}} :
           i \in DOMAIN S}

PenaltyBounds(S, V, a) ==
  _add_room_fit_penalties(S, V, a) \cup _add_lab_fit_penalties(S, V, a)

\* upper end of NewIntVar(0, 1000, ...) of every room_penalty variable
PENALTY_VAR_MAX == 1000

\* the room_penalty variables have a value that meets every bound
PenaltiesFit(S, V, a) ==
  \A b \in PenaltyBounds(S, V, a) : b[2] <= PENALTY_VAR_MAX

_add_room_assignment_constraints(S, V, a) ==
  ExactlyOneRoom(S, V, a) /\ PenaltiesFit(S, V, a)

\* every teacher named as primary or co-teacher
AllTeachers(S) ==
  {S[i].Teacher : i \in DOMAIN S} \cup UNION {Range(S[i].Co_Teachers) : i \in DOMAIN S}

\* teacher_classes[teacher]: a subject is listed once if the teacher is its
\* primary teacher and once for each time the teacher is among Co_Teachers
TeacherListings(S, teacher) ==
  {<<i, 0>> : i \in {j \in DOMAIN S : S[j].Teacher = teacher}}
    \cup UNION {{<<i, k>> : k \in {n \in DOMAIN S[i].Co_Teachers :
                                     S[i].Co_Teachers[n] = teacher}} :
                 i \in DOMAIN S}

_add_teacher_clash(S, V, a) ==
  \A t \in get_time_slots : \A teacher \in AllTeachers(S) :
     ClassSum(S, a, TeacherListings(S, teacher), {t}) <= 1

\* labs: only the practical starting at t is summed; the dictionary
\* practical_is_2hour_block does not exist yet when this method runs
_add_room_clash(S, V, a) ==
  LET \* number of (subject, room variable) pairs summed for the room at t
      InRoom(t, room, kinds) ==
        Cardinality({p \in (DOMAIN S) \X a.room_assignment :
                       /\ p[2][1] = _build_subject_id(S[p[1]])
                       /\ p[2][2] = t /\ p[2][3] = room /\ p[2][4] \in kinds})
  IN \A t \in get_time_slots :
       /\ \A room \in get_rooms_by_type("classroom") :
            InRoom(t, room, {"lecture", "tutorial"}) <= 1
       /\ \A lab \in AllLabs : InRoom(t, lab, {"practical"}) <= 1

\* a later entry of a merge group already met under this course_sem is skipped
CohortCounts(S, i) ==
  ~(/\ Truthy(S[i].Merge_Group_ID)
    /\ \E j \in 1 .. (i - 1) :
         /\ S[j].Course_Semester = S[i].Course_Semester
         /\ S[j].Merge_Group_ID = S[i].Merge_Group_ID)

_add_course_semester_clash(S, V, a) ==
  \A t \in get_time_slots : \A course_sem \in get_course_semesters(S) :
     ClassSum(S, a, {<<i>> : i \in {j \in DOMAIN S :
                                      /\ S[j].Course_Semester = course_sem
                                      /\ CohortCounts(S, j)}}, {t}) <= 1

\* hours of the subjects whose primary teacher is the teacher
TeacherLoad(S, a, teacher) ==
  LET Sel(subj) == subj.Teacher = teacher
  IN ClassSum(S, a, Listed(S, Sel), get_time_slots)

_add_teacher_load(S, V, a) ==
  \A teacher \in get_teachers(S) : TeacherLoad(S, a, teacher) <= MAX_HOURS_PER_TEACHER

SameSubjectKey(subj) == <<subj.Course, subj.Semester, subj.Subject, subj.Subject_type>>

_add_same_subject_no_concurrency(S, V, a) ==
  LET InGroups(i) == ~S[i].Is_Merged /\ S[i].Subject_type \in {"DSC", "DSE"}
  IN \A g \in {j \in DOMAIN S : InGroups(j)} :
       LET members == {j \in DOMAIN S :
                         InGroups(j) /\ SameSubjectKey(S[j]) = SameSubjectKey(S[g])}
       IN Cardinality(members) > 1 =>
            \A t \in get_time_slots :
               ClassSum(S, a, {<<i>> : i \in members}, {t}) <= 1

\* the members of a merge group in list order; ref is the first
MergeMembers(S, merge_id) ==
  LET In(i) == S[i].Merge_Group_ID = merge_id
  IN SelectSeq([i \in DOMAIN S |-> i], In)

MergeIds(S) == {S[i].Merge_Group_ID : i \in DOMAIN S} \ {0}

\* max() of an empty sequence: the first member needs practicals and its
\* department has no lab
MergeSyncRaises(S) ==
  \E merge_id \in MergeIds(S) :
     LET g == MergeMembers(S, merge_id) IN
     /\ Len(g) >= 2
     /\ S[g[1]].Practical_hours > 0
     /\ get_labs_by_department(S[g[1]].Department) = {}

_add_merged_course_synchronization(S, V, a) ==
  \A merge_id \in MergeIds(S) :
     LET g == MergeMembers(S, merge_id) IN
     Len(g) >= 2 =>
       \A m \in 2 .. Len(g) : \A t \in get_time_slots :
          LET ref_id == _build_subject_id(S[g[1]])
              other_id == _build_subject_id(S[g[m]])
          IN /\ \A kind \in {"lecture", "tutorial"} :
                  (<<ref_id, t>> \in V[kind] /\ <<other_id, t>> \in V[kind]) =>
                     /\ (<<ref_id, t>> \in a[kind]) = (<<other_id, t>> \in a[kind])
                     /\ \A room \in get_rooms_by_type("classroom") \cup AllLabs :
                          (/\ <<ref_id, t, room, kind>> \in V.room_assignment
                           /\ <<other_id, t, room, kind>> \in V.room_assignment)
                          => ((<<ref_id, t, room, kind>> \in a.room_assignment)
                               = (<<other_id, t, room, kind>> \in a.room_assignment))
             /\ (<<ref_id, t>> \in V.practical /\ <<other_id, t>> \in V.practical) =>
                  ((<<ref_id, t>> \in a.practical) = (<<other_id, t>> \in a.practical))

\* subj.get("Split_Group_ID"): None (0) when the dict has no such key
Split_Group_ID(subj) ==
  IF "Split_Group_ID" \in DOMAIN subj THEN subj["Split_Group_ID"] ELSE 0

_add_split_teaching_no_concurrency(S, V, a) ==
  \A split_id \in {Split_Group_ID(S[i]) : i \in DOMAIN S} \ {0} :
     LET subjects_in_group == {i \in DOMAIN S : Split_Group_ID(S[i]) = split_id}
     IN Cardinality(subjects_in_group) >= 2 =>
          \A t \in get_time_slots :
             ClassSum(S, a, {<<i>> : i \in subjects_in_group}, {t}) <= 1

_is_consecutive_slot(t) ==
  IF t <= 0 THEN FALSE
  ELSE DayOf(t) = DayOf(t - 1) /\ HourOf(t) = HourOf(t - 1) + 1

\* keys of variables['practical_is_2hour_block']
BlockKeys(S, V) ==
  UNION {{<<_build_subject_id(S[i]), t>> :
            t \in {u \in 0 .. (Cardinality(get_time_slots) - 2) :
                     /\ _is_consecutive_slot(u + 1)
                     /\ <<_build_subject_id(S[i]), u>> \in V.practical
                     /\ <<_build_subject_id(S[i]), u + 1>> \in V.practical}} :
           i \in {j \in DOMAIN S : S[j].Practical_hours # 0}}

\* value the constraints force on a block variable: 1 iff both hours are 1
BlockValue(a, key) ==
  <<key[1], key[2]>> \in a.practical /\ <<key[1], key[2] + 1>> \in a.practical

\* Step 2: room_t == room_t1 for every lab, enforced if the block variable is 1
BlockSameRoom(S, V, a) ==
  \A i \in {j \in DOMAIN S : S[j].Practical_hours # 0} :
     LET sid == _build_subject_id(S[i]) IN
     \A key \in {k \in BlockKeys(S, V) : k[1] = sid} :
        BlockValue(a, key) =>
          \A lab \in get_labs_by_department(S[i].Department) :
             (/\ <<sid, key[2], lab, "practical">> \in V.room_assignment
              /\ <<sid, key[2] + 1, lab, "practical">> \in V.room_assignment)
             => ((<<sid, key[2], lab, "practical">> \in a.room_assignment)
                  = (<<sid, key[2] + 1, lab, "practical">> \in a.room_assignment))

\* Step 2 left out: the hours of a block are free to use different labs
practical_consecutive_without_same_room(S, V, a) == TRUE

_add_practical_consecutive(S, V, a) == BlockSameRoom(S, V, a)

\* keys of variables['practical_non_consecutive_penalty']
IsolationKeys(S, V) ==
  UNION {{k \in V.practical : k[1] = _build_subject_id(S[i])} :
           i \in {j \in DOMAIN S : S[j].Practical_hours # 0}}

\* is_isolated: scheduled and in no 2-hour block (Step 3)
IsIsolated(S, V, a, key) ==
  /\ key \in a.practical
  /\ ~(key \in BlockKeys(S, V) /\ BlockValue(a, key))
  /\ ~(/\ key[2] > 0 /\ _is_consecutive_slot(key[2])
       /\ <<key[1], key[2] - 1>> \in BlockKeys(S, V)
       /\ BlockValue(a, <<key[1], key[2] - 1>>))

\* windows of max_consecutive + 1 slots of one day
Windows(max_consecutive) ==
  {{d * SlotsPerDay + start_slot + offset : offset \in 0 .. max_consecutive} :
     d \in DAYS, start_slot \in 0 .. (SlotsPerDay - max_consecutive - 1)}

\* classes of the subjects selected by Sel over the slots of ts
ClassesOver(S, a, Sel(_), ts) == ClassSum(S, a, Listed(S, Sel), ts)

_add_max_consecutive_classes(S, V, a, max_consecutive) ==
  \A w \in Windows(max_consecutive) :
     /\ \A course_sem \in get_course_semesters(S) :
          LET Sel(subj) == subj.Course_Semester = course_sem
          IN ClassesOver(S, a, Sel, w) <= max_consecutive
     /\ \A teacher \in get_teachers(S) :
          LET Sel(subj) == subj.Teacher = teacher
          IN ClassesOver(S, a, Sel, w) <= max_consecutive

SlotsOfDay(d) == {t \in get_time_slots : DayOf(t) = d}

_add_max_daily_hours_students(S, V, a, max_hours) ==
  \A course_sem \in get_course_semesters(S) : \A d \in DAYS :
     LET Sel(subj) == subj.Course_Semester = course_sem
     IN ClassesOver(S, a, Sel, SlotsOfDay(d)) <= max_hours

_add_max_daily_hours_teachers(S, V, a, max_hours) ==
  \A teacher \in get_teachers(S) : \A d \in DAYS :
     LET Sel(subj) == subj.Teacher = teacher
     IN ClassesOver(S, a, Sel, SlotsOfDay(d)) <= max_hours

\* a satisfies every constraint build_model adds under configuration cfg
Satisfies(S, cfg, V, a) ==
  /\ _add_hour_requirements(S, V, a)
  /\ _add_room_assignment_constraints(S, V, a)
  /\ _add_teacher_clash(S, V, a)
  /\ _add_room_clash(S, V, a)
  /\ _add_course_semester_clash(S, V, a)
  /\ _add_teacher_load(S, V, a)
  /\ _add_same_subject_no_concurrency(S, V, a)
  /\ _add_merged_course_synchronization(S, V, a)
  /\ _add_split_teaching_no_concurrency(S, V, a)
  /\ (cfg.practical_consecutive => _add_practical_consecutive(S, V, a))
  /\ (cfg.max_consecutive_classes =>
        _add_max_consecutive_classes(S, V, a, cfg.max_consecutive_hours))
  /\ (cfg.max_daily_hours =>
        _add_max_daily_hours_students(S, V, a, cfg.max_daily_hours_students))
  /\ (cfg.max_daily_teacher_hours =>
        _add_max_daily_hours_teachers(S, V, a, cfg.max_daily_hours_teachers))

\* ------------------------------------------------------------------------
\* ConstraintBuilder._add_objective_function: the least value the objective
\* can take for assignment a (auxiliary variables at their least value)
\* ------------------------------------------------------------------------
\* sum of f[x] over the set D
RECURSIVE SumFn(_, _)
SumFn(f, D) ==
  IF D = {} THEN 0
  ELSE LET x == CHOOSE y \in D : TRUE IN f[x] + SumFn(f, D \ {x})

MaxOf(set) == CHOOSE m \in set : \A n \in set : n <= m

\* room_penalty variables: each at the largest bound imposed on it; a
\* theory_in_lab variable is 100 when one of the department's labs is used
total_room_penalty(S, V, a) ==
  LET bounds == PenaltyBounds(S, V, a)
      Least(key) == MaxOf({b[2] : b \in {c \in bounds : c[1] = key}})
      in_lab == UNION {{<<k[1], k[2]>> :
                          k \in {x \in a.room_assignment :
                                   /\ x[1] = _build_subject_id(S[i])
                                   /\ x[4] \in {"lecture", "tutorial"}
                                   /\ x[3] \in dept_labs(S[i])}} : i \in DOMAIN S}
      keys == {b[1] : b \in bounds}
  IN SumFn([key \in keys |-> Least(key)], keys)
     + Cardinality(in_lab) * PENALTY_WEIGHTS.theory_in_lab

ge_lecture_penalty(S, V, a) ==
  SumSeq([i \in DOMAIN S |->
            IF S[i].Is_GE_Lab
            THEN Cardinality({t \in get_fixed_slot_indices("GE", 0) :
                                <<_build_subject_id(S[i]), t>> \in a.practical})
                   * PENALTY_WEIGHTS.ge_lecture_slot_usage
            ELSE 0])

total_practical_penalty(S, V, a) ==
  Cardinality({key \in IsolationKeys(S, V) : IsIsolated(S, V, a, key)})
    * PENALTY_WEIGHTS.isolated_practical

\* fixed_indices of the early-completion part
EarlyFixedIndices ==
  UNION {UNION {get_fixed_slot_indices(fixed_type, semester) :
                  fixed_type \in get_fixed_slot_types_for_semester(semester)} :
           semester \in ODD_SEMESTERS \cup EVEN_SEMESTERS}
    \cup UNION {get_fixed_slot_indices("GE_LAB", year * 2 - 1) : year \in {1, 2, 3, 4}}

\* slots outside fixed_indices at which some class variable is 1
UsedSlots(a) ==
  {t \in get_time_slots \ EarlyFixedIndices :
     \E k \in a.lecture \cup a.tutorial \cup a.practical : k[2] = t}

day_penalty(a) ==
  SumFn([d \in DAYS |-> d * SlotsPerDay * 2], {DayOf(t) : t \in UsedSlots(a)})

\* least admissible value of max_used_slot
slot_penalty(a) == IF UsedSlots(a) = {} THEN 0 ELSE MaxOf(UsedSlots(a))

\* the objective without the isolated-practical and early-completion terms
objective_of_rooms_only(S, cfg, V, a) ==
  total_room_penalty(S, V, a) + ge_lecture_penalty(S, V, a)

Objective(S, cfg, V, a) ==
  total_room_penalty(S, V, a) + ge_lecture_penalty(S, V, a)
    + (IF cfg.practical_consecutive THEN total_practical_penalty(S, V, a) ELSE 0)
    + (IF cfg.early_completion THEN day_penalty(a) + slot_penalty(a) ELSE 0)

\* ------------------------------------------------------------------------
\* The solutions of the built model.  Candidates enumerates, subject by
\* subject and kind by kind, the assignments that give a subject its taught
\* number of hours and one room per scheduled hour (every assignment that
\* meets the hour and room constraints when no two subjects share a
\* subject_id, as in the catalogs); Solutions keeps those that satisfy the
\* whole model.
\* ------------------------------------------------------------------------
EmptyAssignment ==
  [lecture |-> {}, tutorial |-> {}, practical |-> {}, room_assignment |-> {}]

\* <<i, kind>> for the subjects and kinds that have variables
VariableGroups(S) ==
  LET HasVars(g) == Taught(S[g[1]], g[2]) > 0
  IN Flatten([i \in DOMAIN S |->
                SelectSeq(<< <<i, "lecture">>, <<i, "tutorial">>, <<i, "practical">> >>,
                          HasVars)])

\* the ways to schedule and house the hours of one subject and kind
Choices(S, V, g) ==
  LET sid == _build_subject_id(S[g[1]])
      kind == g[2]
      slots == {t \in get_time_slots : <<sid, t>> \in V[kind]}
      RoomsAt(t) == {r \in DOMAIN ROOMS : <<sid, t, r, kind>> \in V.room_assignment}
  IN UNION {LET housed == {t \in T : RoomsAt(t) # {}}
            IN {[slots |-> T, rooms |-> {<<t, f[t]>> : t \in housed}] :
                  f \in {h \in [housed -> DOMAIN ROOMS] :
                           \A t \in housed : h[t] \in RoomsAt(t)}}
            : T \in {U \in SUBSET slots : Cardinality(U) = Taught(S[g[1]], kind)}}

Extend(S, a, g, c) ==
  LET sid == _build_subject_id(S[g[1]]) IN
  [a EXCEPT ![g[2]] = @ \cup {<<sid, t>> : t \in c.slots},
            !.room_assignment = @ \cup {<<sid, p[1], p[2], g[2]>> : p \in c.rooms}]

\* the variables of the subjects and kinds listed in gs
Placed(S, V, gs) ==
  LET In(k, kind) ==
        \E n \in DOMAIN gs :
           gs[n][2] = kind /\ _build_subject_id(S[gs[n][1]]) = k[1]
  IN [lecture |-> {k \in V.lecture : In(k, "lecture")},
      tutorial |-> {k \in V.tutorial : In(k, "tutorial")},
      practical |-> {k \in V.practical : In(k, "practical")},
      room_assignment |-> {k \in V.room_assignment : In(k, k[4])},
      room_penalty |-> V.room_penalty]

\* what a partial assignment must already satisfy: the constraints that
\* bound a sum of variables from above hold for every part of a solution,
\* and the synchronization equalities hold between the variables in W
Extensible(S, W, a) ==
  /\ _add_teacher_clash(S, W, a)
  /\ _add_room_clash(S, W, a)
  /\ _add_course_semester_clash(S, W, a)
  /\ _add_teacher_load(S, W, a)
  /\ _add_same_subject_no_concurrency(S, W, a)
  /\ _add_split_teaching_no_concurrency(S, W, a)
  /\ _add_merged_course_synchronization(S, W, a)

\* the assignments of the groups gs that can still be part of a solution
RECURSIVE Candidates(_, _, _)
Candidates(S, V, gs) ==
  IF gs = <<>> THEN {EmptyAssignment}
  ELSE LET rest == Candidates(S, V, Tail(gs))
           ch == Choices(S, V, Head(gs))
           W == Placed(S, V, gs)
       IN {b \in {Extend(S, a, Head(gs), c) : a \in rest, c \in ch} :
             Extensible(S, W, b)}

\* the assignments of all variables that satisfy every constraint
Solutions(S, cfg, V) ==
  {a \in Candidates(S, V, VariableGroups(S)) : Satisfies(S, cfg, V, a)}

\* the solutions with the least objective value
OptimalSolutions(S, cfg, V, sols) ==
  LET values == {Objective(S, cfg, V, a) : a \in sols}
  IN {a \in sols : \E best \in {m \in values : \A n \in values : m <= n} :
                     Objective(S, cfg, V, a) = best}

\* ------------------------------------------------------------------------
\* SolverEngine: _extract_solution.  master_schedule[day][slot] is a list of
\* records; it is held as the sequence of the records in the order they are
\* appended, each with the index t of its (day, slot).
\* ------------------------------------------------------------------------
\* f"MERGE_{Merge_Group_ID}" for a member of a merge group: an identifier
\* that is the subject_id of no subject
_get_event_id(subj) ==
  IF Truthy(subj.Merge_Group_ID)
  THEN [cs |-> [course |-> "MERGE_", st |-> "", sem |-> subj.Merge_Group_ID,
                tag |-> "", sec |-> ""],
        subj |-> "", ini |-> ""]
  ELSE _build_subject_id(subj)

\* the first subject the event stands for
_get_subject_details_by_event(S, event_id) ==
  LET Is(i) == IF event_id.cs.course = "MERGE_"
               THEN S[i].Merge_Group_ID = event_id.cs.sem
               ELSE _build_subject_id(S[i]) = event_id
      first == CHOOSE i \in DOMAIN S : Is(i) /\ \A j \in 1 .. (i - 1) : ~Is(j)
  IN S[first]

\* the elements of a set of integers in increasing order
RECURSIVE Ascending(_)
Ascending(set) ==
  IF set = {} THEN <<>>
  ELSE LET m == CHOOSE x \in set : \A y \in set : x <= y
       IN <<m>> \o Ascending(set \ {m})

\* the keys of variables[kind] in the order _create_variables inserts them
KeyOrder(S, V, kind) ==
  LET all == Flatten([i \in DOMAIN S |->
                 IF Taught(S[i], kind) > 0
                 THEN LET ts == Ascending({t \in get_time_slots :
                                  <<_build_subject_id(S[i]), t>> \in V[kind]})
                      IN [n \in DOMAIN ts |-> <<_build_subject_id(S[i]), ts[n]>>]
                 ELSE <<>>])
      keep == {n \in DOMAIN all : \A m \in 1 .. (n - 1) : all[m] # all[n]}
      Kept(k) == \E n \in keep : all[n] = k
  IN IF keep = DOMAIN all THEN all ELSE SelectSeq(all, Kept)

\* Config.ROOMS in the order of the dictionary
ROOM_ORDER ==
  <<"R-1", "R-2", "R-31", "R-32", "R-51", "R-52",
    "CL-1", "CL-2", "PL-1", "ChemL-1", "BioL-1", "EL-1">>

InRoomOrder(rooms) == LET In(r) == r \in rooms IN SelectSeq(ROOM_ORDER, In)

\* first pass: teachers_at_slot.get((event_id, t), [Teacher]); an entry is
\* written for each subject whose event id has a variable that is 1 at t,
\* and the last subject to write it wins
TeachersAtSlot(S, a, event_id, t, default) ==
  LET Writes(i) == /\ _get_event_id(S[i]) = event_id
                   /\ \E kind \in KINDS : <<event_id, t>> \in a[kind]
      writers == {i \in DOMAIN S : Writes(i)}
  IN IF writers = {} THEN <<default>>
     ELSE LET last == CHOOSE i \in writers : \A j \in writers : j <= i
          IN <<S[last].Teacher>> \o S[last].Co_Teachers

\* the room of a lecture or tutorial record
TheoryRoom(V, a, key, kind) ==
  LET Has(r) == <<key[1], key[2], r, kind>> \in a.room_assignment
      classrooms == InRoomOrder({r \in get_rooms_by_type("classroom") : Has(r)})
      labs == InRoomOrder({r \in AllLabs : Has(r)})
  IN IF classrooms # <<>> THEN <<classrooms[1]>>
     ELSE IF labs # <<>> THEN <<labs[1], "(Theory)">>
     ELSE <<"Room-TBD">>

TheoryRecord(S, V, a, key, kind) ==
  LET subj_details == _get_subject_details_by_event(S, key[1])
  IN [subject |-> subj_details.Subject,
      teachers_list |-> TeachersAtSlot(S, a, key[1], key[2], subj_details.Teacher),
      course_semester |-> subj_details.Course_Semester,
      type |-> IF kind = "lecture" THEN "Lecture" ELSE "Tutorial",
      room |-> TheoryRoom(V, a, key, kind),
      subject_type |-> subj_details.Subject_type,
      section |-> subj_details.Section,
      is_continuation |-> FALSE,
      t |-> key[2]]

\* the two records a practical variable with value 1 appends: one at t and,
\* if t + 1 is a slot of the week, one at t + 1 marked is_continuation
PracticalRecords(S, V, a, key) ==
  LET subj_details == _get_subject_details_by_event(S, key[1])
      available_labs == get_labs_by_department(subj_details.Department)
      assigned_labs ==
        InRoomOrder({lab \in available_labs :
                       <<key[1], key[2], lab, "practical">> \in a.room_assignment})
      room_name == IF assigned_labs # <<>> THEN assigned_labs
                   ELSE <<subj_details.Lab_type, "-TBD">>
      Rec(offset) ==
        [subject |-> subj_details.Subject,
         teachers_list |-> TeachersAtSlot(S, a, key[1], key[2] + offset,
                                          subj_details.Teacher),
         course_semester |-> subj_details.Course_Semester,
         type |-> "Practical",
         room |-> room_name,
         subject_type |-> subj_details.Subject_type,
         section |-> subj_details.Section,
         is_continuation |-> (offset = 1),
         t |-> key[2] + offset]
  IN <<Rec(0)>> \o (IF key[2] + 1 < Cardinality(get_time_slots)
                    THEN <<Rec(1)>> ELSE <<>>)

\* the keys of variables[kind] whose variable is 1, in dictionary order
OnesInOrder(S, V, a, kind) ==
  LET On(k) == k \in a[kind] IN SelectSeq(KeyOrder(S, V, kind), On)

_extract_solution(S, V, a) ==
  LET lec == OnesInOrder(S, V, a, "lecture")
      tut == OnesInOrder(S, V, a, "tutorial")
      pra == OnesInOrder(S, V, a, "practical")
  IN [n \in DOMAIN lec |-> TheoryRecord(S, V, a, lec[n], "lecture")]
       \o [n \in DOMAIN tut |-> TheoryRecord(S, V, a, tut[n], "tutorial")]
       \o Flatten([n \in DOMAIN pra |-> PracticalRecords(S, V, a, pra[n])])

\* ------------------------------------------------------------------------
\* SolverEngine: _assign_assistants
\* ------------------------------------------------------------------------
LAB_TEACHER_RATIO == 20

\* the indices of master_schedule in the order of the nested loops over
\* master_schedule.items(), day_schedule.items() and the list of a slot:
\* days and slots come in the order their first record was appended
NestedOrder(M) ==
  LET DayRank(n) == CHOOSE m \in DOMAIN M :
                      /\ DayOf(M[m].t) = DayOf(M[n].t)
                      /\ \A k \in 1 .. (m - 1) : DayOf(M[k].t) # DayOf(M[n].t)
      SlotRank(n) == CHOOSE m \in DOMAIN M :
                       /\ M[m].t = M[n].t
                       /\ \A k \in 1 .. (m - 1) : M[k].t # M[n].t
      Before(x, y) ==
        \/ DayRank(x) < DayRank(y)
        \/ DayRank(x) = DayRank(y) /\ SlotRank(x) < SlotRank(y)
        \/ DayRank(x) = DayRank(y) /\ SlotRank(x) = SlotRank(y) /\ x < y
  IN SortSeq([n \in DOMAIN M |-> n], Before)

\* teacher_workload and the busy (teacher, slot) pairs after the loop that
\* marks the scheduled classes
MarkedWorkload(M, teacher) ==
  SumSeq([n \in DOMAIN M |->
            Cardinality({k \in DOMAIN M[n].teachers_list :
                           M[n].teachers_list[k] = teacher})])

MarkedBusy(M) ==
  UNION {{<<teacher, M[n].t>> : teacher \in Range(M[n].teachers_list)} :
           n \in DOMAIN M}

\* next((s["Department"] for s in subjects if s["Teacher"] == teacher), None)
teacher_dept(S, teacher) ==
  LET own == {i \in DOMAIN S : S[i].Teacher = teacher}
  IN IF own = {} THEN "None"
     ELSE S[CHOOSE i \in own : \A j \in own : i <= j].Department

\* the (subject, record) pairs the assignment loop visits, in order
AssistantJobs(S, M) ==
  LET order == NestedOrder(M)
      assistants_needed(i) ==
        ((S[i].Students_count + LAB_TEACHER_RATIO - 1) \div LAB_TEACHER_RATIO) - 1
      Matches(i, n) ==
        /\ M[n].subject = S[i].Subject
        /\ M[n].course_semester = S[i].Course_Semester
        /\ M[n].type = "Practical"
        /\ ~M[n].is_continuation
  IN Flatten([i \in DOMAIN S |->
       IF S[i].Practical_hours = 0 \/ assistants_needed(i) <= 0 THEN <<>>
       ELSE LET Mine(n) == Matches(i, n)
                mine == SelectSeq(order, Mine)
            IN [k \in DOMAIN mine |-> <<i, mine[k]>>]])

\* list.sort(key=workload): stable, ties keep the order of the list
SortByWorkload(list, workload) ==
  LET loads == Ascending({workload[list[k]] : k \in DOMAIN list})
  IN Flatten([n \in DOMAIN loads |->
                LET Has(teacher) == workload[teacher] = loads[n]
                IN SelectSeq(list, Has)])

\* the innermost loop without the look-up in teacher_availability
AssignBlockWithoutAvailability(S, M, all_teachers, st, job) ==
  LET subj == S[job[1]]
      start_time_idx == M[job[2]].t
      practical_hours == {start_time_idx, start_time_idx + 1}
      assistants_needed ==
        ((subj.Students_count + LAB_TEACHER_RATIO - 1) \div LAB_TEACHER_RATIO) - 1
      Available(teacher) ==
        /\ teacher # subj.Teacher
        /\ teacher_dept(S, teacher) = subj.Department
        /\ st.workload[teacher] < MAX_HOURS_PER_TEACHER
        /\ \A h \in practical_hours : h \in get_time_slots
      available_teachers == SortByWorkload(SelectSeq(all_teachers, Available),
                                           st.workload)
      assigned == SubSeq(available_teachers, 1,
                         Min(assistants_needed, Len(available_teachers)))
      key == <<_get_event_id(subj), start_time_idx>>
  IN [busy |-> st.busy \cup {<<teacher, h>> : teacher \in Range(assigned),
                                              h \in practical_hours},
      workload |-> [teacher \in DOMAIN st.workload |->
                      IF teacher \in Range(assigned)
                      THEN st.workload[teacher] + 2 ELSE st.workload[teacher]],
      assignments |-> [k \in DOMAIN st.assignments \cup {key} |->
                         IF k = key THEN assigned ELSE st.assignments[k]]]

\* the body of the innermost loop for one practical record that starts a
\* block; all_teachers is the set in the order the loop iterates it
AssignBlock(S, M, all_teachers, st, job) ==
  LET subj == S[job[1]]
      start_time_idx == M[job[2]].t
      practical_hours == {start_time_idx, start_time_idx + 1}
      assistants_needed ==
        ((subj.Students_count + LAB_TEACHER_RATIO - 1) \div LAB_TEACHER_RATIO) - 1
      Available(teacher) ==
        /\ teacher # subj.Teacher
        /\ teacher_dept(S, teacher) = subj.Department
        /\ st.workload[teacher] < MAX_HOURS_PER_TEACHER
        /\ \A h \in practical_hours :
              h \in get_time_slots /\ <<teacher, h>> \notin st.busy
      available_teachers == SortByWorkload(SelectSeq(all_teachers, Available),
                                           st.workload)
      assigned == SubSeq(available_teachers, 1,
                         Min(assistants_needed, Len(available_teachers)))
      key == <<_get_event_id(subj), start_time_idx>>
  IN [busy |-> st.busy \cup {<<teacher, h>> : teacher \in Range(assigned),
                                              h \in practical_hours},
      workload |-> [teacher \in DOMAIN st.workload |->
                      IF teacher \in Range(assigned)
                      THEN st.workload[teacher] + 2 ELSE st.workload[teacher]],
      assignments |-> [k \in DOMAIN st.assignments \cup {key} |->
                         IF k = key THEN assigned ELSE st.assignments[k]]]

RECURSIVE RunJobs(_, _, _, _, _)
RunJobs(S, M, all_teachers, st, jobs) ==
  IF jobs = <<>> THEN st
  ELSE RunJobs(S, M, all_teachers,
               AssignBlock(S, M, all_teachers, st, Head(jobs)), Tail(jobs))

\* _assign_assistants that also writes the assistants of a block into the
\* teachers_list of the record that starts it
assign_assistants_into_schedule(S, M, all_teachers) ==
  LET jobs == AssistantJobs(S, M)
      st == RunJobs(S, M, all_teachers,
                    [busy |-> MarkedBusy(M),
                     workload |-> [teacher \in Range(all_teachers) |->
                                     MarkedWorkload(M, teacher)],
                     assignments |-> <<>>],
                    jobs)
      Added(n) ==
        Flatten([k \in DOMAIN jobs |->
                   IF jobs[k][2] = n
                   THEN st.assignments[<<_get_event_id(S[jobs[k][1]]), M[n].t>>]
                   ELSE <<>>])
  IN [master_schedule |->
        [n \in DOMAIN M |->
           [M[n] EXCEPT !.teachers_list = M[n].teachers_list \o Added(n)]],
      assistant_assignments |-> st.assignments,
      teacher_workload_after_assistants |-> st.workload]

\* the solution object after _assign_assistants: master_schedule as it was
\* passed in, solution['assistant_assignments'] and
\* solution['teacher_workload_after_assistants'] as the loops leave them
_assign_assistants(S, M, all_teachers) ==
  LET st == RunJobs(S, M, all_teachers,
                    [busy |-> MarkedBusy(M),
                     workload |-> [teacher \in Range(all_teachers) |->
                                     MarkedWorkload(M, teacher)],
                     assignments |-> <<>>],
                    AssistantJobs(S, M))
  IN [master_schedule |-> M,
      assistant_assignments |-> st.assignments,
      teacher_workload_after_assistants |-> st.workload]

\* the orders in which a Python set of the teachers' names can be iterated
IterationOrders(set) ==
  {q \in [1 .. Cardinality(set) -> set] : Range(q) = set}

\* ------------------------------------------------------------------------
\* main(): one run of the pipeline on a sheet and a configuration.
\* pc names the step main() is about to take; "returned" is an early return
\* of main(), "raised" an exception that reaches the handler of the script,
\* "done" the end of main().
\* ------------------------------------------------------------------------
VARIABLES catalog, config, pc, subjects, issues, variables, status, val,
          master_schedule, assistant_assignments, teacher_workload, exit_code,
          reported

vars == <<catalog, config, pc, subjects, issues, variables, status, val,
          master_schedule, assistant_assignments, teacher_workload,
          exit_code, reported>>

Init ==
  /\ catalog \in Catalogs
  /\ config \in Configs
  /\ pc = "validate_data"
  /\ subjects = <<>>
  /\ issues = {}
  /\ variables = NoVariables
  /\ status = ""
  /\ val = EmptyAssignment
  /\ master_schedule = <<>>
  /\ assistant_assignments = <<>>
  /\ teacher_workload = <<>>
  /\ exit_code = <<>>
  /\ reported = {}

\* DataLoader.validate_data
ValidateData ==
  /\ pc = "validate_data"
  /\ IF \/ ~_validate_semester_type(catalog, config.semester_type)
        \/ \E i \in DOMAIN catalog : ~_validate_row(catalog[i])
     THEN pc' = "returned" /\ subjects' = subjects
     ELSE IF ExpandRaises(catalog)
     THEN pc' = "raised" /\ subjects' = subjects
     ELSE pc' = "validate_config_match"
          /\ subjects' = _parse_and_expand_subjects(catalog)
  /\ reported' = validate_data_reports(catalog, config.semester_type)
  /\ UNCHANGED <<catalog, config, issues, variables, status, val,
                 master_schedule, assistant_assignments, teacher_workload,
                 exit_code>>

\* DataLoader.validate_config_match
ValidateConfigMatch ==
  /\ pc = "validate_config_match"
  /\ pc' = IF validate_config_match(catalog) THEN "check_feasibility"
           ELSE "returned"
  /\ reported' = reported \cup config_errors(catalog)
  /\ UNCHANGED <<catalog, config, subjects, issues, variables, status, val,
                 master_schedule, assistant_assignments, teacher_workload,
                 exit_code>>

\* main() without the `if not is_feasible: return` guard
CheckFeasibilityUnguarded ==
  /\ pc = "check_feasibility"
  /\ issues' = check_feasibility(subjects)
  /\ pc' = "build_model"
  /\ UNCHANGED <<catalog, config, subjects, variables, status, val,
                 master_schedule, assistant_assignments, teacher_workload,
                 exit_code, reported>>

\* FeasibilityChecker.check_feasibility
CheckFeasibility ==
  /\ pc = "check_feasibility"
  /\ issues' = check_feasibility(subjects)
  /\ pc' = IF issues' = {} THEN "build_model" ELSE "returned"
  /\ UNCHANGED <<catalog, config, subjects, variables, status, val,
                 master_schedule, assistant_assignments, teacher_workload,
                 exit_code, reported>>

\* ConstraintBuilder.build_model
BuildModel ==
  /\ pc = "build_model"
  /\ IF CreateVariablesRaises(subjects)
     THEN pc' = "raised" /\ variables' = variables
     ELSE IF MergeSyncRaises(subjects)
     THEN pc' = "raised" /\ variables' = _create_variables(subjects)
     ELSE pc' = "solve" /\ variables' = _create_variables(subjects)
  /\ UNCHANGED <<catalog, config, subjects, issues, status, val,
                 master_schedule, assistant_assignments, teacher_workload,
                 exit_code, reported>>

\* SolverEngine.solve with a solution: the search ends with a proven
\* optimum (OPTIMAL) or at the time limit with the solution it holds
\* (FEASIBLE); the schedule is extracted and the assistants are assigned
SolveFound ==
  /\ pc = "solve"
  /\ \E sols \in {Solutions(subjects, config, variables)} :
     \E optimal \in {OptimalSolutions(subjects, config, variables, sols)} :
        /\ sols # {}
        /\ \E a \in sols, st \in {"OPTIMAL", "FEASIBLE"} :
             /\ st = "OPTIMAL" => a \in optimal
             /\ \E all_teachers \in IterationOrders(AllTeachers(subjects)) :
                  LET M == _extract_solution(subjects, variables, a)
                      r == _assign_assistants(subjects, M, all_teachers)
                  IN /\ status' = st
                     /\ val' = a
                     /\ master_schedule' = r.master_schedule
                     /\ assistant_assignments' = r.assistant_assignments
                     /\ teacher_workload' = r.teacher_workload_after_assistants
  /\ pc' = "generate"
  /\ UNCHANGED <<catalog, config, subjects, issues, variables, exit_code,
                 reported>>

\* solve() that hands a solution object to main() whatever the status
SolveNoneReturnsObject ==
  /\ pc = "solve"
  /\ \/ status' = "INFEASIBLE" /\ Solutions(subjects, config, variables) = {}
     \/ status' = "UNKNOWN"
  /\ pc' = "generate"
  /\ UNCHANGED <<catalog, config, subjects, issues, variables, val,
                 master_schedule, assistant_assignments, teacher_workload,
                 exit_code, reported>>

\* SolverEngine.solve without a solution: the model has none (INFEASIBLE)
\* or the time limit passes before one is found (UNKNOWN); solve returns
\* None and main() returns
SolveNone ==
  /\ pc = "solve"
  /\ \/ status' = "INFEASIBLE" /\ Solutions(subjects, config, variables) = {}
     \/ status' = "UNKNOWN"
  /\ pc' = "returned"
  /\ UNCHANGED <<catalog, config, subjects, issues, variables, val,
                 master_schedule, assistant_assignments, teacher_workload,
                 exit_code, reported>>

\* Step 5 of main(): the generators read the solution and write the files
Generate ==
  /\ pc = "generate"
  /\ pc' = "done"
  /\ UNCHANGED <<catalog, config, subjects, issues, variables, status, val,
                 master_schedule, assistant_assignments, teacher_workload,
                 exit_code, reported>>

\* the end of the script: main() has returned, early or at its end, or the
\* handler `except Exception` has printed the exception; the script has no
\* sys.exit, so the interpreter ends with exit code 0. exit_code is empty
\* while the process runs
ScriptEnd ==
  /\ pc \in {"returned", "raised", "done"}
  /\ exit_code = <<>>
  /\ exit_code' = <<0>>
  /\ UNCHANGED <<catalog, config, pc, subjects, issues, variables, status, val,
                 master_schedule, assistant_assignments, teacher_workload,
                 reported>>

Next ==
  \/ ValidateData
  \/ ValidateConfigMatch
  \/ CheckFeasibility
  \/ BuildModel
  \/ SolveFound
  \/ SolveNone
  \/ Generate
  \/ ScriptEnd

Spec == Init /\ [][Next]_vars

\* ------------------------------------------------------------------------
\* Properties of the returned schedule and of the solution it is read from
\* ------------------------------------------------------------------------
\* solve() has returned a solution
Returned == pc \in {"generate", "done"}

\* the records of master_schedule at slot t
BlocksAt(t) == {n \in DOMAIN master_schedule : master_schedule[n].t = t}

\* C1: in the returned schedule no teacher is in the teachers_list of two
\* records of one slot, every emitted record counted (continuation records
\* of practicals too)
C1_TeacherOneBlockPerSlot ==
  \A teacher \in AllTeachers(subjects) : \A t \in get_time_slots :
     Cardinality({n \in BlocksAt(t) :
                    teacher \in Range(master_schedule[n].teachers_list)}) <= 1

\* C2: in the returned schedule no classroom or lab is the room of two
\* records of one slot, whatever their kinds
C2_RoomOneBlockPerSlot ==
  \A room \in DOMAIN ROOMS : \A t \in get_time_slots :
     Cardinality({n \in BlocksAt(t) : room \in Range(master_schedule[n].room)}) <= 1

\* the cohort (course, semester, section) a record belongs to
CohortOf(rec) == <<rec.course_semester.course, rec.course_semester.sem, rec.section>>

\* C3: no cohort (course, semester, section) has two records at one slot,
\* also when its section letter is empty and it takes several subjects
C3_CohortOneBlockPerSlot ==
  \A t \in get_time_slots : \A n \in BlocksAt(t), m \in BlocksAt(t) :
     CohortOf(master_schedule[n]) = CohortOf(master_schedule[m]) => n = m

\* the records of subject entry i of the given type
RecordsOf(i, type) ==
  {n \in DOMAIN master_schedule :
     /\ master_schedule[n].subject = subjects[i].Subject
     /\ master_schedule[n].course_semester = subjects[i].Course_Semester
     /\ master_schedule[n].teachers_list[1] = subjects[i].Teacher
     /\ master_schedule[n].type = type}

\* C4: in the returned schedule every subject has as many Lecture, Tutorial
\* and Practical records as it has taught hours of that kind
C4_RecordsEqualTaughtHours ==
  Returned =>
    \A i \in DOMAIN subjects :
       /\ Cardinality(RecordsOf(i, "Lecture")) = subjects[i].Taught_Lecture_hours
       /\ Cardinality(RecordsOf(i, "Tutorial")) = subjects[i].Taught_Tutorial_hours
       /\ Cardinality(RecordsOf(i, "Practical")) = subjects[i].Taught_Practical_hours

\* the reserved window of a reserved category for the year of the semester;
\* the lab hours of a GE subject have the GE-lab window of the year as well
ReservedWindow(category, semester) ==
  IF category = "GE"
  THEN get_fixed_slot_indices("GE", 0) \cup get_fixed_slot_indices("GE_LAB", semester)
  ELSE get_fixed_slot_indices(category, semester)

\* the reserved windows that apply to the year of the semester
ReservedWindowsOfYear(semester) ==
  UNION {ReservedWindow(category, semester) :
           category \in get_fixed_slot_types_for_semester(semester)}

\* C5: every record of a GE/SEC/VAC/AEC subject lies in the reserved window
\* of its category and year, and no record of a DSC/DSE subject, continuation
\* records included, lies in a reserved window of its year
C5_BlocksRespectReservedWindows ==
  \A n \in DOMAIN master_schedule :
     LET rec == master_schedule[n]
         semester == rec.course_semester.sem
     IN IF IsFixedType(rec.subject_type)
        THEN rec.t \in ReservedWindow(rec.subject_type, semester)
        ELSE rec.t \notin ReservedWindowsOfYear(semester)

\* solve() found a solution; val holds it
Solved == status \in {"OPTIMAL", "FEASIBLE"}

\* subject entry i has an indicator of some kind equal to 1 at slot t
ScheduledAt(i, t) ==
  \E kind \in KINDS : <<_build_subject_id(subjects[i]), t>> \in val[kind]

\* the entries DataLoader made from the catalog row with the split id
SplitGroup(id) == {i \in DOMAIN subjects : subjects[i].split_group_id = id}

\* C6: in a solution, at every slot at most one member of a split group
\* has a lecture, tutorial or practical indicator equal to 1
C6_SplitMembersNeverConcurrent ==
  Solved =>
    \A id \in {subjects[i].split_group_id : i \in DOMAIN subjects} \ {0} :
       \A t \in get_time_slots :
          Cardinality({i \in SplitGroup(id) : ScheduledAt(i, t)}) <= 1

\* members i and j have equal indicators of the kind at t, and for lectures
\* and tutorials equal room indicators, wherever both have the variable
SameIndicators(i, j, kind, t) ==
  LET si == _build_subject_id(subjects[i])
      sj == _build_subject_id(subjects[j])
  IN (<<si, t>> \in variables[kind] /\ <<sj, t>> \in variables[kind]) =>
       /\ (<<si, t>> \in val[kind]) = (<<sj, t>> \in val[kind])
       /\ kind \in {"lecture", "tutorial"} =>
            \A room \in DOMAIN ROOMS :
               (/\ <<si, t, room, kind>> \in variables.room_assignment
                /\ <<sj, t, room, kind>> \in variables.room_assignment)
               => ((<<si, t, room, kind>> \in val.room_assignment)
                    = (<<sj, t, room, kind>> \in val.room_assignment))

\* C7: in a solution the members of a merge group have, slot by slot, equal
\* lecture, tutorial and practical indicators, and equal lecture and
\* tutorial room indicators
C7_MergeMembersSynchronized ==
  Solved =>
    \A i \in DOMAIN subjects, j \in DOMAIN subjects :
       (/\ subjects[i].Merge_Group_ID # 0
        /\ subjects[i].Merge_Group_ID = subjects[j].Merge_Group_ID)
       => \A kind \in KINDS : \A t \in get_time_slots : SameIndicators(i, j, kind, t)

\* scenario S2: one row merges two courses, one teacher, lecture and
\* practical hours taught
IsScenarioS2(df) ==
  /\ Len(df) = 1
  /\ Len(df[1].Course) = 2
  /\ Len(df[1].Teacher) = 1
  /\ df[1].Hours[1][1] > 0 /\ df[1].Hours[1][3] > 0

\* the records of the type that belong to the course of subject entry i
RecordsOfCourse(i, type) ==
  {n \in DOMAIN master_schedule :
     /\ master_schedule[n].course_semester = subjects[i].Course_Semester
     /\ master_schedule[n].type = type}

\* C8: for scenario S2 the built model has a solution, and in the returned
\* schedule the two members have their lectures at the same slots in the
\* same classroom and their practicals at the same hours in two labs
C8_MergeScenarioSolved ==
  IsScenarioS2(catalog) =>
    /\ pc = "solve" => Solutions(subjects, config, variables) # {}
    /\ Returned =>
         /\ {<<master_schedule[n].t, master_schedule[n].room>> :
                n \in RecordsOfCourse(1, "Lecture")}
              = {<<master_schedule[n].t, master_schedule[n].room>> :
                   n \in RecordsOfCourse(2, "Lecture")}
         /\ {master_schedule[n].t : n \in RecordsOfCourse(1, "Practical")}
              = {master_schedule[n].t : n \in RecordsOfCourse(2, "Practical")}
         /\ \A n \in RecordsOfCourse(1, "Practical"),
                m \in RecordsOfCourse(2, "Practical") :
               master_schedule[n].t = master_schedule[m].t
                 => master_schedule[n].room # master_schedule[m].room

\* the class-hours of the solution at which the teacher is present, as
\* primary teacher or as co-teacher
HoursPresent(teacher) ==
  Cardinality({t \in get_time_slots :
                 \E i \in DOMAIN subjects :
                    /\ teacher = subjects[i].Teacher
                         \/ teacher \in Range(subjects[i].Co_Teachers)
                    /\ ScheduledAt(i, t)})

\* C9: in a returned schedule every teacher, primary or co-teacher, is
\* present in at most MAX_HOURS_PER_TEACHER class-hours of the week
C9_TeacherPresenceWithinCap ==
  Solved =>
    \A teacher \in AllTeachers(subjects) : HoursPresent(teacher) <= MAX_HOURS_PER_TEACHER

\* the labs assigned to the practical hour of the subject at t
LabsOf(sid, t) ==
  {lab \in AllLabs : <<sid, t, lab, "practical">> \in val.room_assignment}

\* the subject has practical hours at u and u + 1, two slots of one day
BlockAt(sid, u) ==
  /\ u \in get_time_slots /\ (u + 1) \in get_time_slots
  /\ DayOf(u) = DayOf(u + 1)
  /\ <<sid, u>> \in val.practical /\ <<sid, u + 1>> \in val.practical

SameSubjectRecords(n, m) ==
  /\ master_schedule[n].subject = master_schedule[m].subject
  /\ master_schedule[n].course_semester = master_schedule[m].course_semester

\* the Practical records at slot t of the subject of record n
PracticalsOfSubjectAt(n, t) ==
  {m \in BlocksAt(t) : /\ master_schedule[m].type = "Practical"
                       /\ SameSubjectRecords(n, m)}

\* C11: with the 2-hour option enabled, every Practical record at s that is
\* not a continuation is followed at s + 1, on the same day, by exactly one
\* Practical record of its subject, which has the same room and teacher
\* list and is marked is_continuation; every record marked is_continuation
\* is the second hour of such a block
C11_ContinuationMarksSecondHour ==
  (Returned /\ config.practical_consecutive) =>
    \A n \in DOMAIN master_schedule :
       LET rec == master_schedule[n] IN
       rec.type = "Practical" =>
         IF rec.is_continuation
         THEN /\ (rec.t - 1) \in get_time_slots
              /\ DayOf(rec.t - 1) = DayOf(rec.t)
              /\ \E m \in PracticalsOfSubjectAt(n, rec.t - 1) :
                    /\ ~master_schedule[m].is_continuation
                    /\ master_schedule[m].room = rec.room
                    /\ master_schedule[m].teachers_list = rec.teachers_list
         ELSE /\ (rec.t + 1) \in get_time_slots
              /\ DayOf(rec.t + 1) = DayOf(rec.t)
              /\ \E m \in PracticalsOfSubjectAt(n, rec.t + 1) :
                    /\ PracticalsOfSubjectAt(n, rec.t + 1) = {m}
                    /\ master_schedule[m].is_continuation
                    /\ master_schedule[m].room = rec.room
                    /\ master_schedule[m].teachers_list = rec.teachers_list

\* the rooms assigned to the hour of the kind of the subject at t
RoomsAssigned(sid, t, kind) ==
  {room \in DOMAIN ROOMS : <<sid, t, room, kind>> \in val.room_assignment}

\* C12: in a solution, for every (subject, slot, kind) with a kind indicator
\* the number of room indicators equal to 1 is the value of the indicator:
\* exactly one room for a scheduled hour, none for an unscheduled one
C12_RoomCountEqualsIndicator ==
  Solved =>
    \A kind \in KINDS : \A k \in variables[kind] :
       Cardinality(RoomsAssigned(k[1], k[2], kind)) = Val(val[kind], k)

\* build_model or solve has been invoked, or is the next call of main()
SearchStarted ==
  \/ pc \in {"build_model", "solve", "generate", "done"}
  \/ variables # NoVariables
  \/ status # ""

\* validate_data returned True for the sheet
DataValid ==
  /\ _validate_semester_type(catalog, config.semester_type)
  /\ \A i \in DOMAIN catalog : _validate_row(catalog[i])
  /\ ~ExpandRaises(catalog)

\* some teacher's taught load is above the weekly cap
SomeTeacherOverCap ==
  \E teacher \in FeasTeachers(subjects) :
     teacher_loads(subjects, teacher) > MAX_HOURS_PER_TEACHER

FeasibilityChecked ==
  pc \in {"build_model", "solve", "generate", "done"} \/ issues # {}

\* the hours entry i adds to the load of the teacher: its taught hours when
\* the teacher is its primary teacher or a co-teacher of an unsplit entry
HoursOfEntryFor(i, teacher) ==
  IF \/ subjects[i].Teacher = teacher
     \/ /\ ~subjects[i].Is_Split_Teaching
        /\ teacher \in Range(subjects[i].Co_Teachers)
  THEN subjects[i].Taught_Lecture_hours + subjects[i].Taught_Tutorial_hours
         + subjects[i].Taught_Practical_hours
  ELSE 0

\* entry i repeats, for another course of its merge group, the partition of
\* an earlier entry with the same primary teacher
RepeatsMergedPartition(i) ==
  /\ subjects[i].Merge_Group_ID # 0
  /\ \E j \in 1 .. (i - 1) :
       /\ subjects[j].Merge_Group_ID = subjects[i].Merge_Group_ID
       /\ subjects[j].Teacher = subjects[i].Teacher

\* the load of the teacher: taught hours over the entries the teacher
\* teaches in, a merge group once, a split partition for its owner
LoadOf(teacher) ==
  SumSeq([i \in DOMAIN subjects |->
            IF RepeatsMergedPartition(i) THEN 0 ELSE HoursOfEntryFor(i, teacher)])

\* C14: the checker's load of every teacher is that sum, a blocking issue is
\* recorded iff some load is above MAX_HOURS_PER_TEACHER, and a teacher gets
\* a warning iff the load is below 80% of the cap
C14_WorkloadCheckCountsEveryPartition ==
  FeasibilityChecked =>
    /\ \A teacher \in FeasTeachers(subjects) :
          teacher_loads(subjects, teacher) = LoadOf(teacher)
    /\ ("TEACHER OVERLOAD" \in issues)
          <=> (\E teacher \in FeasTeachers(subjects) :
                 LoadOf(teacher) > MAX_HOURS_PER_TEACHER)
    /\ underutilized(subjects)
          = {teacher \in FeasTeachers(subjects) :
               10 * LoadOf(teacher) < 8 * MAX_HOURS_PER_TEACHER}

\* solve() has returned
SolveReturned == status # ""

\* C15: solve returns the solution object, with the extracted schedule and
\* the assistant assignments, iff the status is OPTIMAL or FEASIBLE; for
\* any other status it returns None and neither extracts nor assigns
C15_SolutionIffOptimalOrFeasible ==
  SolveReturned =>
    IF status \in {"OPTIMAL", "FEASIBLE"}
    THEN /\ pc \in {"generate", "done"}
         /\ master_schedule = _extract_solution(subjects, variables, val)
         /\ \E all_teachers \in IterationOrders(AllTeachers(subjects)) :
               LET r == _assign_assistants(subjects, master_schedule, all_teachers)
               IN /\ assistant_assignments = r.assistant_assignments
                  /\ teacher_workload = r.teacher_workload_after_assistants
    ELSE /\ pc = "returned"
         /\ val = EmptyAssignment
         /\ master_schedule = <<>>
         /\ DOMAIN assistant_assignments = {}
         /\ DOMAIN teacher_workload = {}

\* the search stopped at the time limit with a solution, which solve
\* extracted and returned
C15_FeasibleReturned ==
  /\ status = "FEASIBLE"
  /\ pc = "generate"
  /\ master_schedule # <<>>
  /\ DOMAIN teacher_workload # {}

\* subject entry i has a Practical record that starts a block at slot t
StartsBlockAt(i, t) ==
  \E n \in RecordsOf(i, "Practical") :
     master_schedule[n].t = t /\ ~master_schedule[n].is_continuation

\* ceil(n / R) - 1 - |C| for subject entry i, and 0 when that is negative
AssistantsAllowed(i) ==
  Max(0, ((subjects[i].Students_count + LAB_TEACHER_RATIO - 1)
             \div LAB_TEACHER_RATIO) - 1 - Len(subjects[i].Co_Teachers))

\* C16: the assistants assigned to a practical block of a subject with n
\* students and co-teachers C are at most ceil(n / LAB_TEACHER_RATIO) - 1
\* - |C|, and none when that number is not positive
C16_AssistantsWithinNeed ==
  Returned =>
    \A key \in DOMAIN assistant_assignments :
       \E i \in DOMAIN subjects :
          /\ _get_event_id(subjects[i]) = key[1]
          /\ StartsBlockAt(i, key[2])
          /\ Len(assistant_assignments[key]) <= AssistantsAllowed(i)

\* the subject entries whose practical block the key of an assistant list
\* can stand for
EntriesOfKey(key) ==
  {i \in DOMAIN subjects : /\ _get_event_id(subjects[i]) = key[1]
                           /\ StartsBlockAt(i, key[2])}

\* C17: every assistant of a practical block is of the department of the
\* block's subject, and every teacher's hours in
\* teacher_workload_after_assistants are at most MAX_HOURS_PER_TEACHER
C17_AssistantsOfDepartmentWithinCap ==
  Returned =>
    /\ \A key \in DOMAIN assistant_assignments :
          \A teacher \in Range(assistant_assignments[key]) :
             \E i \in EntriesOfKey(key) :
                teacher_dept(subjects, teacher) = subjects[i].Department
    /\ \A teacher \in DOMAIN teacher_workload :
          teacher_workload[teacher] <= MAX_HOURS_PER_TEACHER

\* the two hours of the block an assistant list is keyed by
HoursOfKey(key) == {key[2], key[2] + 1}

\* the teacher is in the teachers_list of a record at slot t
TeachesAt(teacher, t) ==
  \E n \in BlocksAt(t) : teacher \in Range(master_schedule[n].teachers_list)

PracticalAt(i, t) == <<_build_subject_id(subjects[i]), t>> \in val.practical

\* slot t is the second hour of a block of subject entry i
SecondHourOfBlock(i, t) ==
  /\ (t - 1) \in get_time_slots /\ DayOf(t - 1) = DayOf(t)
  /\ PracticalAt(i, t - 1) /\ PracticalAt(i, t)

\* C19: the keys of assistant_assignments are exactly the pairs (subject
\* entry, t) with a practical block of that entry starting at t: a key
\* stands for one subject entry only, that entry has a practical at t, and
\* t is not the second hour of its block
C19_KeysAreBlockStarts ==
  Returned =>
    /\ \A key \in DOMAIN assistant_assignments :
          \E i \in DOMAIN subjects :
             /\ \A j \in DOMAIN subjects :
                   _get_event_id(subjects[j]) = key[1] <=> j = i
             /\ PracticalAt(i, key[2])
             /\ ~SecondHourOfBlock(i, key[2])
    /\ \A i \in DOMAIN subjects : \A t \in get_time_slots :
          (PracticalAt(i, t) /\ ~SecondHourOfBlock(i, t))
            => <<_get_event_id(subjects[i]), t>> \in DOMAIN assistant_assignments

\* C20: the assistant assignments and the workloads of the returned
\* solution are what _assign_assistants yields for the same schedule and
\* subject list under every order in which the teachers can be visited
C20_AssistantsDeterministic ==
  Returned =>
    \A all_teachers \in IterationOrders(AllTeachers(subjects)) :
       LET r == _assign_assistants(subjects, master_schedule, all_teachers)
       IN /\ r.assistant_assignments = assistant_assignments
          /\ r.teacher_workload_after_assistants = teacher_workload

\* C21: the master_schedule of the returned solution is the one
\* _extract_solution built from the solver's values, record for record and
\* field for field: _assign_assistants adds assistant_assignments and
\* teacher_workload_after_assistants and leaves the schedule as it was
C21_AssignmentKeepsSchedule ==
  Returned => master_schedule = _extract_solution(subjects, variables, val)

\* a returned solution in which _assign_assistants gave an assistant to a
\* block and the schedule is still the extracted one
C21_ScheduleKeptWithAssistants ==
  /\ pc = "generate"
  /\ \E n \in DOMAIN master_schedule :
       /\ master_schedule[n].type = "Practical"
       /\ \E key \in DOMAIN assistant_assignments :
            /\ key[2] = master_schedule[n].t
            /\ assistant_assignments[key] # <<>>
  /\ master_schedule = _extract_solution(subjects, variables, val)

\* the process has ended
Exited == exit_code # <<>>

\* C22: the process ends with exit code 0 only when main() reached its end
\* with the timetables generated, and with a code other than 0 when
\* validation failed, the feasibility check blocked, or the solver had no
\* solution (infeasible, or out of time with none found)
C22_ExitZeroOnlyOnSuccess ==
  Exited =>
    /\ exit_code = <<0>> => pc = "done"
    /\ pc = "returned" => exit_code # <<0>>

\* validate_data returned False in its loop over the rows
RowPhaseAborted ==
  /\ pc = "returned"
  /\ subjects = <<>>
  /\ _validate_semester_type(catalog, config.semester_type)

\* validate_config_match returned False
ConfigPhaseAborted ==
  /\ pc = "returned"
  /\ subjects # <<>>
  /\ ~validate_config_match(catalog)

\* (course, semester) of some row has a section count other than the
\* configured one
SectionCountDiffers(course, semester) ==
  LET found == {p[3] : p \in {q \in CourseParts(catalog) :
                                q[1] = course /\ q[2] = semester /\ q[3] # ""}}
  IN /\ course \in DOMAIN COURSE_SECTIONS
     /\ semester \in DOMAIN COURSE_SECTIONS[course]
     /\ found # {}
     /\ Cardinality(found) # COURSE_SECTIONS[course][semester]

\* C23: when the run aborts in the row phase, every row that _validate_row
\* rejects has been reported, and when it aborts in the config phase,
\* every (course, semester) whose section count differs from the
\* configuration has been reported
C23_ValidationReportsAll ==
  /\ RowPhaseAborted =>
       \A i \in DOMAIN catalog :
          ~_validate_row(catalog[i]) => <<"data", "", i, "row">> \in reported
  /\ ConfigPhaseAborted =>
       \A p \in CourseParts(catalog) :
          SectionCountDiffers(p[1], p[2])
            => <<"config", p[1], p[2], "section_mismatch">> \in reported

\* the variable key of the given kind is 1 in the solution and none of its
\* room-assignment indicators is
NoRoomIndicator(key, kind) ==
  /\ key \in val[kind]
  /\ ~\E r \in DOMAIN ROOMS : <<key[1], key[2], r, kind>> \in val.room_assignment

\* record n of master_schedule was extracted from a variable without a room
\* indicator
FallbackRecord(n) ==
  \/ \E kind \in {"lecture", "tutorial"} : \E key \in val[kind] :
        /\ NoRoomIndicator(key, kind)
        /\ master_schedule[n] = TheoryRecord(subjects, variables, val, key, kind)
  \/ \E key \in val.practical :
        /\ NoRoomIndicator(key, "practical")
        /\ master_schedule[n] \in Range(PracticalRecords(subjects, variables, val, key))

\* the rooms of the kind record n needs that no other record of its slot has
FreeRoomsFor(n) ==
  LET kind_rooms == IF master_schedule[n].type = "Practical" THEN AllLabs
                    ELSE get_rooms_by_type("classroom")
      taken == UNION {Range(master_schedule[m].room) :
                        m \in BlocksAt(master_schedule[n].t) \ {n}}
  IN InRoomOrder(kind_rooms \ taken)

\* C24: a record extracted from a variable without a room indicator has the
\* first room, in the order of Config.ROOMS, of the kind it needs that no
\* other record of its slot has, and two such records of one slot and kind
\* have different rooms
C24_FallbackIsLowestFreeRoom ==
  Returned =>
    \A n \in DOMAIN master_schedule :
       FallbackRecord(n) =>
         /\ FreeRoomsFor(n) # <<>>
         /\ master_schedule[n].room = <<FreeRoomsFor(n)[1]>>
         /\ \A m \in BlocksAt(master_schedule[n].t) \ {n} :
               (FallbackRecord(m) /\ master_schedule[m].type = master_schedule[n].type)
                 => master_schedule[m].room # master_schedule[n].room

\* subject entry i has an indicator variable of some kind at slot t
HasIndicatorAt(i, t) ==
  \E kind \in KINDS : <<_build_subject_id(subjects[i]), t>> \in variables[kind]

\* C25: for every subject entry and every reserved category of its year
\* other than its own, the entry has no lecture, tutorial or practical
\* indicator variable at a slot of that category's window for the year
C25_WindowsExclusive ==
  \A i \in DOMAIN subjects :
     \A category \in get_fixed_slot_types_for_semester(subjects[i].Semester) :
        category # subjects[i].Subject_type =>
          \A t \in ReservedWindow(category, subjects[i].Semester) :
             ~HasIndicatorAt(i, t)

\* the slots of the set w at which some subject entry selected by Sel has
\* a class in the solution
SlotsWithClass(Sel(_), w) ==
  {t \in w : \E i \in DOMAIN subjects : Sel(subjects[i]) /\ ScheduledAt(i, t)}

\* C26: with max_consecutive_classes enabled and limit K, in every solution
\* every cohort and every teacher, primary or co-teacher, has a class at no
\* more than K slots of any window of K + 1 contiguous slots of a day
C26_ConsecutiveWithinLimit ==
  (Solved /\ config.max_consecutive_classes) =>
    \A w \in Windows(config.max_consecutive_hours) :
       /\ \A course_sem \in get_course_semesters(subjects) :
            LET Sel(subj) == subj.Course_Semester = course_sem
            IN Cardinality(SlotsWithClass(Sel, w)) <= config.max_consecutive_hours
       /\ \A teacher \in AllTeachers(subjects) :
            LET Sel(subj) == \/ subj.Teacher = teacher
                             \/ teacher \in Range(subj.Co_Teachers)
            IN Cardinality(SlotsWithClass(Sel, w)) <= config.max_consecutive_hours

\* scenario S1: one cohort, a theory subject and a lab subject with two
\* taught practical hours whose department has one lab
IsScenarioS1(df) ==
  /\ Len(df) = 2
  /\ \A i \in DOMAIN df :
       /\ df[i].Course = df[1].Course /\ Len(df[i].Course) = 1
       /\ df[i].Section = df[1].Section
       /\ Len(df[i].Teacher) = 1
  /\ df[1].Hours[1][3] = 0
  /\ df[2].Hours[1][3] = 2
  /\ Cardinality(get_labs_by_department(df[2].Department)) = 1

\* the two practical hours of the solution are at consecutive slots of one
\* day and in the same lab
PracticalsInOneBlock ==
  \E key \in val.practical :
     /\ val.practical = {key, <<key[1], key[2] + 1>>}
     /\ _is_consecutive_slot(key[2] + 1)
     /\ \E lab \in AllLabs :
          {r \in val.room_assignment : r[4] = "practical"}
            = {<<key[1], key[2], lab, "practical">>,
               <<key[1], key[2] + 1, lab, "practical">>}

\* scenario S1 with the 2-hour option enabled and the limits at their
\* defaults
ScenarioS1Run ==
  /\ IsScenarioS1(catalog)
  /\ config.practical_consecutive
  /\ config.max_consecutive_hours = 3

\* C27: for scenario S1 with the 2-hour option enabled the built model has
\* a solution, and every optimal solution has the two practical hours at
\* consecutive slots of one day in the same lab
C27_S1OptimalIsBlock ==
  ScenarioS1Run =>
    /\ status # "INFEASIBLE"
    /\ status = "OPTIMAL" => PracticalsInOneBlock

\* an optimal solution of scenario S1 with the practical hours in one block
C27_S1BlockFound ==
  ScenarioS1Run /\ status = "OPTIMAL" /\ pc = "generate" /\ PracticalsInOneBlock

\* C28: when validate_data has accepted the sheet and the subjects are
\* expanded, every row whose Teacher cell lists two or more teachers
\* separated by "|" has as many (Le, Tu, Pr) triples as teachers
C28_PipedTeachersNeedMatchingHours ==
  subjects # <<>> =>
    \A i \in DOMAIN catalog :
       TeacherPiped(catalog[i]) => Len(catalog[i].Hours) = Len(catalog[i].Teacher)

\* the records _extract_solution appends for the variable key of the kind
RecordsOfKey(key, kind) ==
  IF kind = "practical"
  THEN Range(PracticalRecords(subjects, variables, val, key))
  ELSE {TheoryRecord(subjects, variables, val, key, kind)}

\* C29: for every subject entry the identifier SolverEngine looks its
\* indicators up with is the key ConstraintBuilder created them under, and
\* every record of a returned schedule lists the primary teacher of its
\* subject entry followed by the co-teachers
C29_EventIdIsVariableKey ==
  /\ \A i \in DOMAIN subjects :
        _get_event_id(subjects[i]) = _build_subject_id(subjects[i])
  /\ Returned =>
       \A kind \in KINDS : \A key \in val[kind] : \A i \in DOMAIN subjects :
          _build_subject_id(subjects[i]) = key[1] =>
            \A rec \in RecordsOfKey(key, kind) :
               rec.teachers_list = <<subjects[i].Teacher>> \o subjects[i].Co_Teachers

\* the assignment in which the room indicator k alone is 1
OnlyRoom(k) == [EmptyAssignment EXCEPT !.room_assignment = {k}]

\* C30: for every room-assignment indicator of the built model the penalty
\* that _add_room_fit_penalties or _add_lab_fit_penalties requires when the
\* indicator is 1 lies in the domain of the room_penalty variable, so no
\* room is excluded by the size of the class
C30_EveryRoomPenaltyFits ==
  \A k \in variables.room_assignment :
     PenaltiesFit(subjects, variables, OnlyRoom(k))
====
